---- MODULE Spec2Model ----
(***************************************************************************)
(* Model of the smarttodo gateways: the Google Tasks adapter                *)
(* (source/api/services/gtasks_service.py), its HTTP surface                *)
(* (source/api/main.py), its tool-call surface (source/api/mcp/server.py)   *)
(* the Gmail gateway (mpc_gmail/main.py: filter query, unread, send and     *)
(* read, credentials), the tool server's event loop, the Calendar           *)
(* update_event (source/Cal/google_calendar_client.py) and the tool client  *)
(* (source/api/mcp/client.py).                                              *)
(*                                                                         *)
(* Python values are represented as follows.                                *)
(*   str            a sequence of one-character strings                     *)
(*   Optional[x]    the empty set (None) or the singleton {x}               *)
(*   dict           a record whose optional keys are Optional fields        *)
(*   exception      a result whose k is "raise", err naming the class       *)
(***************************************************************************)
EXTENDS Integers, Sequences, FiniteSets, TLC

VARIABLES vendor, last, mail, auth, loop, cal, client

vars == <<vendor, last, mail, auth, loop, cal, client>>

(***************************************************************************)
(* Bounds of the model.                                                     *)
(***************************************************************************)
MaxTasks == 1
MaxSearchTasks == 2
MaxBatch == 3
MaxUnread == 2
MaxSessions == 3
MaxOps == 3
MaxRequests == 2

(***************************************************************************)
(* Python helpers.                                                          *)
(***************************************************************************)
None == {}

Some(x) == {x}

The(s) == CHOOSE x \in s : TRUE

\* `if x:` on an Optional[str]: None and "" are falsy.
Truthy(o) == o /= None /\ The(o) /= <<>>

\* str.lower() on the model's alphabet.
Lower(s) == [i \in 1..Len(s) |-> IF s[i] = "D" THEN "d" ELSE s[i]]

\* `q in s` on strings: q is a contiguous substring of s.
Contains(s, q) == \E i \in 0..(Len(s) - Len(q)) : SubSeq(s, i + 1, i + Len(q)) = q

\* dict.get(key, '') on an optional string key.
GetOr(o, dflt) == IF o = None THEN dflt ELSE The(o)

(***************************************************************************)
(* Dates.  The wire strings the model draws from, and datetime values.      *)
(***************************************************************************)
DueZ == "2025-01-01T00:00:00Z"

DueOffset == "2025-01-01T00:00:00+00:00"

DueNaive == "2025-01-01T00:00:00"

DueDate == "2025-01-01"

DueBad == "invalid-date"

DtAware == [date |-> "2025-01-01", time |-> "00:00:00", tz |-> "+00:00"]

DtNaive == [date |-> "2025-01-01", time |-> "00:00:00", tz |-> ""]

\* str.replace('Z', '+00:00')
ReplaceZ(s) == IF s = DueZ THEN DueOffset ELSE s

\* datetime.fromisoformat: ok is FALSE for ValueError.
FromIsoFormat(s) ==
    IF s = DueOffset THEN [ok |-> TRUE, dt |-> DtAware]
    ELSE IF s \in {DueNaive, DueDate} THEN [ok |-> TRUE, dt |-> DtNaive]
    ELSE [ok |-> FALSE, dt |-> DtNaive]

\* GoogleTasksService._parse_datetime
ParseDatetime(o) ==
    IF o = None THEN None
    ELSE LET s == The(o)
             \* 'T' in date_str
             r == IF s \in {DueZ, DueOffset, DueNaive} THEN FromIsoFormat(ReplaceZ(s))
                  ELSE FromIsoFormat(s)
         IN  IF r.ok THEN Some(r.dt) ELSE None

\* GoogleTasksService._format_datetime: datetime.isoformat() writes a naive
\* datetime without an offset.
FormatDatetime(o) ==
    IF o = None THEN None
    ELSE Some(IF The(o).tz = "" THEN DueNaive ELSE DueOffset)

(***************************************************************************)
(* models/schemas.py                                                        *)
(***************************************************************************)
TitleMinLength == 1

TitleMaxLength == 200

ListTitleMaxLength == 100

NeedsAction == "needsAction"

Completed == "completed"

TaskStatusValues == {NeedsAction, Completed}

\* Field(..., min_length=1, max_length=200) on title.
TitleValid(title) == Len(title) >= TitleMinLength /\ Len(title) <= TitleMaxLength

\* class Task(TaskBase): a pydantic BaseModel, validated on construction.
TaskModel(id, title, notes, status, due, updated, completed, hidden) ==
    [ok |-> TitleValid(title),
     task |-> [class |-> "BaseModel", id |-> id, title |-> title, notes |-> notes,
               status |-> status, due |-> due, updated |-> updated,
               completed |-> completed, hidden |-> hidden]]

\* class TaskList(TaskListBase): Field(..., min_length=1, max_length=100) on title.
TaskListModel(id, title, updated) ==
    [ok |-> Len(title) >= TitleMinLength /\ Len(title) <= ListTitleMaxLength,
     task |-> [class |-> "BaseModel", id |-> id, title |-> title, updated |-> updated]]

\* TaskCreate(title=..., notes=..., due=...): ok is FALSE for ValidationError.
TaskCreate(title, notes, due) ==
    [ok |-> TitleValid(title), title |-> title, notes |-> notes, due |-> due]

\* TaskUpdate(title=..., notes=..., due=..., status=...)
TaskUpdate(title, notes, due, status) ==
    [ok |-> (title = None \/ TitleValid(The(title))),
     title |-> title, notes |-> notes, due |-> due, status |-> status]

(***************************************************************************)
(* The vendor (Google Tasks API) as the adapter calls it.  A task resource  *)
(* is [id, list, title, notes, due, status, completed, updated, hidden];    *)
(* title, notes, due and completed are optional keys.  Identifiers are      *)
(* one-symbol strings <<n>>.  A call answers [status, items, v]: 200 with   *)
(* the resources, 404 for an unknown identifier, 500 when the call fails    *)
(* for another reason (fault).                                              *)
(***************************************************************************)
Resp(status, items, v) == [status |-> status, items |-> items, v |-> v]

ListExists(v, l) == \E i \in 1..Len(v.lists) : v.lists[i].id = l

ListAt(v, l) == v.lists[CHOOSE i \in 1..Len(v.lists) : v.lists[i].id = l]

TaskExists(v, l, t) ==
    \E i \in 1..Len(v.tasks) : v.tasks[i].list = l /\ v.tasks[i].id = t

TaskAt(v, l, t) ==
    v.tasks[CHOOSE i \in 1..Len(v.tasks) : v.tasks[i].list = l /\ v.tasks[i].id = t]

TasksOf(v, l) == SelectSeq(v.tasks, LAMBDA x : x.list = l)

\* service.tasklists().list()
VendorTasklistsList(v, fault) ==
    IF fault THEN Resp(500, <<>>, v) ELSE Resp(200, v.lists, v)

\* service.tasklists().get(tasklist=...)
VendorTasklistsGet(v, l, fault) ==
    IF fault THEN Resp(500, <<>>, v)
    ELSE IF ~ListExists(v, l) THEN Resp(404, <<>>, v)
    ELSE Resp(200, <<ListAt(v, l)>>, v)

\* service.tasklists().update(tasklist=..., body=...): a PUT of the resource.
VendorTasklistsUpdate(v, l, body, fault) ==
    IF fault THEN Resp(500, <<>>, v)
    ELSE IF ~ListExists(v, l) THEN Resp(404, <<>>, v)
    ELSE LET old == ListAt(v, l)
             item == [id |-> l,
                      title |-> IF body.title = None /\ v.put = "merge"
                                THEN old.title ELSE body.title,
                      updated |-> v.clock + 1]
         IN  Resp(200, <<item>>,
                  [v EXCEPT !.lists = [i \in 1..Len(@) |-> IF @[i].id = l THEN item ELSE @[i]],
                            !.clock = @ + 1])

\* service.tasklists().delete(tasklist=...): the list goes with its tasks.
VendorTasklistsDelete(v, l, fault) ==
    IF fault THEN Resp(500, <<>>, v)
    ELSE IF ~ListExists(v, l) THEN Resp(404, <<>>, v)
    ELSE Resp(204, <<>>,
              [v EXCEPT !.lists = SelectSeq(@, LAMBDA x : x.id /= l),
                        !.tasks = SelectSeq(@, LAMBDA x : x.list /= l)])

\* service.tasks().list(tasklist=..., showCompleted=..., showHidden=...)
VendorTasksList(v, l, showCompleted, showHidden, fault) ==
    IF fault THEN Resp(500, <<>>, v)
    ELSE IF ~ListExists(v, l) THEN Resp(404, <<>>, v)
    ELSE Resp(200,
              SelectSeq(TasksOf(v, l),
                        LAMBDA x : /\ (showCompleted \/ x.status /= Completed)
                                   /\ (showHidden \/ ~x.hidden)),
              v)

\* service.tasks().get(tasklist=..., task=...)
VendorTasksGet(v, l, t, fault) ==
    IF fault THEN Resp(500, <<>>, v)
    ELSE IF ~TaskExists(v, l, t) THEN Resp(404, <<>>, v)
    ELSE Resp(200, <<TaskAt(v, l, t)>>, v)

\* service.tasks().insert(tasklist=..., body=...): a new task, placed first.
VendorTasksInsert(v, l, body, fault) ==
    IF fault THEN Resp(500, <<>>, v)
    ELSE IF ~ListExists(v, l) THEN Resp(404, <<>>, v)
    ELSE LET item == [id |-> <<v.nextId>>, list |-> l, title |-> body.title,
                      notes |-> body.notes, due |-> body.due, status |-> NeedsAction,
                      completed |-> None, updated |-> v.clock + 1, hidden |-> FALSE]
         IN  Resp(200, <<item>>,
                  [v EXCEPT !.tasks = <<item>> \o @, !.nextId = @ + 1, !.clock = @ + 1])

\* One key of the resource a PUT stores: the body's value when the body has
\* the key; otherwise the old value where the vendor merges and the default
\* where it replaces the resource by the body.
PutKey(v, bodyVal, oldVal, dflt) ==
    IF bodyVal /= None THEN bodyVal ELSE IF v.put = "merge" THEN oldVal ELSE dflt

\* service.tasks().update(tasklist=..., task=..., body=...): a PUT of the resource.
VendorTasksUpdate(v, l, t, body, fault) ==
    IF fault THEN Resp(500, <<>>, v)
    ELSE IF ~TaskExists(v, l, t) THEN Resp(404, <<>>, v)
    ELSE LET old == TaskAt(v, l, t)
             st == The(PutKey(v, body.status, Some(old.status), Some(NeedsAction)))
             item == [id |-> t, list |-> l,
                      title |-> PutKey(v, body.title, old.title, None),
                      notes |-> PutKey(v, body.notes, old.notes, None),
                      due |-> PutKey(v, body.due, old.due, None),
                      status |-> st,
                      completed |-> IF st /= Completed THEN None
                                    ELSE IF old.status = Completed THEN old.completed
                                    ELSE Some(v.clock + 1),
                      updated |-> v.clock + 1, hidden |-> old.hidden]
         IN  Resp(200, <<item>>,
                  [v EXCEPT !.tasks = [i \in 1..Len(@) |->
                                         IF @[i].list = l /\ @[i].id = t THEN item ELSE @[i]],
                            !.clock = @ + 1])

\* service.tasks().delete(tasklist=..., task=...)
VendorTasksDelete(v, l, t, fault) ==
    IF fault THEN Resp(500, <<>>, v)
    ELSE IF ~TaskExists(v, l, t) THEN Resp(404, <<>>, v)
    ELSE Resp(204, <<>>,
              [v EXCEPT !.tasks = SelectSeq(@, LAMBDA x : ~(x.list = l /\ x.id = t))])

\* service.tasks().clear(tasklist=...): completed tasks of the list become hidden.
VendorTasksClear(v, l, fault) ==
    IF fault THEN Resp(500, <<>>, v)
    ELSE IF ~ListExists(v, l) THEN Resp(404, <<>>, v)
    ELSE Resp(204, <<>>,
              [v EXCEPT !.tasks = [i \in 1..Len(@) |->
                                     IF @[i].list = l /\ @[i].status = Completed
                                     THEN [@[i] EXCEPT !.hidden = TRUE] ELSE @[i]]])

(***************************************************************************)
(* services/gtasks_service.py: the Tasks adapter.  An operation answers     *)
(* [k, recs, err, v]: k is "value" (recs returned), "none" (None), "true",  *)
(* "false", "void" or "raise" (err names the exception); v is the vendor    *)
(* state the call leaves.                                                   *)
(***************************************************************************)
Ret(k, recs, err, v) == [k |-> k, recs |-> recs, err |-> err, v |-> v]

\* The handler answered without calling the adapter.
Uncalled(v) == Ret("", <<>>, "", v)

GoogleApiError == "Exception: Google API error"

ValidationError == "ValidationError"

\* GoogleTasksService._convert_task
ConvertTask(item) ==
    TaskModel(item.id, GetOr(item.title, <<>>), item.notes, item.status,
              ParseDatetime(item.due), item.updated, item.completed, item.hidden)

\* GoogleTasksService._convert_task_list
ConvertTaskList(item) == TaskListModel(item.id, GetOr(item.title, <<>>), item.updated)

\* [self._convert_task(item) for item in items]: the first failing
\* conversion raises.
ConvertAll(items) ==
    IF \A i \in 1..Len(items) : ConvertTask(items[i]).ok
    THEN [ok |-> TRUE, recs |-> [i \in 1..Len(items) |-> ConvertTask(items[i]).task]]
    ELSE [ok |-> FALSE, recs |-> <<>>]

\* return self._convert_task(result), inside try/except HttpError
Converted(c, v) ==
    IF c.ok THEN Ret("value", <<c.task>>, "", v) ELSE Ret("raise", <<>>, ValidationError, v)

get_task_list(v, l, fault) ==
    LET r == VendorTasklistsGet(v, l, fault)
    IN  IF r.status = 200 THEN Converted(ConvertTaskList(r.items[1]), r.v)
        ELSE IF r.status = 404 THEN Ret("none", <<>>, "", r.v)
        ELSE Ret("raise", <<>>, GoogleApiError, r.v)

update_task_list(v, l, data, fault1, fault2) ==
    LET existing == VendorTasklistsGet(v, l, fault1)
        r == VendorTasklistsUpdate(existing.v, l, [title |-> data.title], fault2)
    IN  IF existing.status = 404 THEN Ret("none", <<>>, "", existing.v)
        ELSE IF existing.status /= 200 THEN Ret("raise", <<>>, GoogleApiError, existing.v)
        ELSE IF r.status = 200 THEN Converted(ConvertTaskList(r.items[1]), r.v)
        ELSE IF r.status = 404 THEN Ret("none", <<>>, "", r.v)
        ELSE Ret("raise", <<>>, GoogleApiError, r.v)

delete_task_list(v, l, fault) ==
    LET r == VendorTasklistsDelete(v, l, fault)
    IN  IF r.status = 204 THEN Ret("true", <<>>, "", r.v)
        ELSE IF r.status = 404 THEN Ret("false", <<>>, "", r.v)
        ELSE Ret("raise", <<>>, GoogleApiError, r.v)

\* completed is None (no filter given), {TRUE} or {FALSE}.
get_tasks(v, l, completed, fault) ==
    LET showCompleted == completed = None \/ The(completed)
        showHidden == FALSE
        r == VendorTasksList(v, l, showCompleted, showHidden, fault)
        c == ConvertAll(r.items)
    IN  IF r.status /= 200 THEN Ret("raise", <<>>, GoogleApiError, r.v)
        ELSE IF c.ok THEN Ret("value", c.recs, "", r.v)
        ELSE Ret("raise", <<>>, ValidationError, r.v)

\* get_task without its 404 branch: an unknown identifier raises like any
\* other vendor failure.
get_task_no_404(v, l, t, fault) ==
    LET r == VendorTasksGet(v, l, t, fault)
    IN  IF r.status = 200 THEN Converted(ConvertTask(r.items[1]), r.v)
        ELSE Ret("raise", <<>>, GoogleApiError, r.v)

get_task(v, l, t, fault) ==
    LET r == VendorTasksGet(v, l, t, fault)
    IN  IF r.status = 200 THEN Converted(ConvertTask(r.items[1]), r.v)
        ELSE IF r.status = 404 THEN Ret("none", <<>>, "", r.v)
        ELSE Ret("raise", <<>>, GoogleApiError, r.v)

\* create_task answering with the request's fields instead of converting the
\* resource the vendor returns.
create_task_echo(v, l, data, fault) ==
    LET body == [title |-> Some(data.title),
                 notes |-> IF Truthy(data.notes) THEN data.notes ELSE None,
                 due |-> IF data.due /= None THEN FormatDatetime(data.due) ELSE None]
        r == VendorTasksInsert(v, l, body, fault)
    IN  IF r.status = 200
        THEN Converted(TaskModel(<<>>, data.title, data.notes, NeedsAction, data.due,
                                 r.v.clock, None, FALSE), r.v)
        ELSE Ret("raise", <<>>, GoogleApiError, r.v)

create_task(v, l, data, fault) ==
    LET body == [title |-> Some(data.title),
                 notes |-> IF Truthy(data.notes) THEN data.notes ELSE None,
                 due |-> IF data.due /= None THEN FormatDatetime(data.due) ELSE None]
        r == VendorTasksInsert(v, l, body, fault)
    IN  IF r.status = 200 THEN Converted(ConvertTask(r.items[1]), r.v)
        ELSE Ret("raise", <<>>, GoogleApiError, r.v)

update_task(v, l, t, data, fault1, fault2) ==
    LET existing == VendorTasksGet(v, l, t, fault1)
        body == [title |-> data.title,
                 notes |-> data.notes,
                 due |-> IF data.due /= None THEN FormatDatetime(data.due) ELSE None,
                 status |-> data.status]
        r == VendorTasksUpdate(existing.v, l, t, body, fault2)
    IN  IF existing.status = 404 THEN Ret("none", <<>>, "", existing.v)
        ELSE IF existing.status /= 200 THEN Ret("raise", <<>>, GoogleApiError, existing.v)
        ELSE IF r.status = 200 THEN Converted(ConvertTask(r.items[1]), r.v)
        ELSE IF r.status = 404 THEN Ret("none", <<>>, "", r.v)
        ELSE Ret("raise", <<>>, GoogleApiError, r.v)

\* delete_task reporting success for an identifier the vendor does not know.
delete_task_404_true(v, l, t, fault) ==
    LET r == VendorTasksDelete(v, l, t, fault)
    IN  IF r.status \in {204, 404} THEN Ret("true", <<>>, "", r.v)
        ELSE Ret("raise", <<>>, GoogleApiError, r.v)

delete_task(v, l, t, fault) ==
    LET r == VendorTasksDelete(v, l, t, fault)
    IN  IF r.status = 204 THEN Ret("true", <<>>, "", r.v)
        ELSE IF r.status = 404 THEN Ret("false", <<>>, "", r.v)
        ELSE Ret("raise", <<>>, GoogleApiError, r.v)

complete_task(v, l, t, fault1, fault2) ==
    update_task(v, l, t, TaskUpdate(None, None, None, Some(Completed)), fault1, fault2)

uncomplete_task(v, l, t, fault1, fault2) ==
    update_task(v, l, t, TaskUpdate(None, None, None, Some(NeedsAction)), fault1, fault2)

clear_completed_tasks(v, l, fault) ==
    LET r == VendorTasksClear(v, l, fault)
    IN  IF r.status = 204 THEN Ret("void", <<>>, "", r.v)
        ELSE Ret("raise", <<>>, GoogleApiError, r.v)

\* The filter of search_tasks: query_lower in title or query_lower in notes.
Matches(item, query) ==
    \/ Contains(Lower(GetOr(item.title, <<>>)), Lower(query))
    \/ Contains(Lower(GetOr(item.notes, <<>>)), Lower(query))

\* The loop `for task_list in task_lists` of search_tasks from position i on:
\* a list whose listing fails with an HttpError is skipped, a matching task
\* whose conversion fails ends the search with that exception.
RECURSIVE SearchLoop(_, _, _, _, _, _)
SearchLoop(v, ids, i, query, faultOf, acc) ==
    IF i > Len(ids) THEN Ret("value", acc, "", v)
    ELSE LET r == VendorTasksList(v, ids[i], TRUE, TRUE, faultOf[ids[i]])
             hits == SelectSeq(r.items, LAMBDA x : Matches(x, query))
             c == ConvertAll(hits)
         IN  IF r.status /= 200 THEN SearchLoop(v, ids, i + 1, query, faultOf, acc)
             ELSE IF ~c.ok THEN Ret("raise", <<>>, ValidationError, v)
             ELSE SearchLoop(v, ids, i + 1, query, faultOf, acc \o c.recs)

\* task_list_id is None or {l}; faultLists fails tasklists().list(), faultOf[l]
\* fails the listing of l's tasks.
search_tasks(v, query, task_list_id, faultLists, faultOf) ==
    IF task_list_id /= None /\ The(task_list_id) /= <<>>
    THEN SearchLoop(v, <<The(task_list_id)>>, 1, query, faultOf, <<>>)
    ELSE LET r == VendorTasklistsList(v, faultLists)
         IN  IF r.status /= 200 THEN Ret("raise", <<>>, GoogleApiError, v)
             ELSE SearchLoop(v, [i \in 1..Len(r.items) |-> r.items[i].id], 1,
                             query, faultOf, <<>>)

(***************************************************************************)
(* main.py: the HTTP surface.  A handler answers [status, recs, v].  The    *)
(* body of its try block ends normally, with an HTTPException or with       *)
(* another exception; the except clauses turn that into the status.  The    *)
(* handlers themselves are the Http actions of the state machine.           *)
(***************************************************************************)
\* `if not task: raise HTTPException(404)` / `if not success: ...` after the
\* adapter call, inside the try block.
TryBody(r) ==
    IF r.k = "raise" THEN [exc |-> "Exception", status |-> 500]
    ELSE IF r.k \in {"none", "false"} THEN [exc |-> "HTTPException", status |-> 404]
    ELSE [exc |-> "", status |-> 0]

\* The except clauses without `except HTTPException: raise`: the generic
\* branch catches the handler's own 404.
ExceptClausesNoReraise(b, okStatus) == IF b.exc /= "" THEN 500 ELSE okStatus

\* except HTTPException: raise / except Exception: raise HTTPException(500),
\* then http_exception_handler answers exc.status_code.
ExceptClauses(b, okStatus) ==
    IF b.exc = "HTTPException" THEN b.status
    ELSE IF b.exc = "Exception" THEN 500
    ELSE okStatus

\* A handler with only `except Exception`: every exception becomes 500.
ExceptGeneric(r, okStatus) == IF r.k = "raise" THEN 500 ELSE okStatus

\* The response: the records are the body of a 200 or 201; 422 answers a body
\* that fails validation before the handler runs.
HttpAnswer(status, r) ==
    [status |-> status, recs |-> IF status \in {200, 201} THEN r.recs ELSE <<>>, v |-> r.v]

\* The last path segment of DELETE /task-lists/{id}/tasks/completed, written in
\* the identifier alphabet: the vendor assigns identifiers from 1.
CompletedSegment == <<0>>

\* The DELETE routes below /task-lists/{id}/tasks/ in registration order; a
\* segment of None is the path parameter {task_id}.
DeleteTaskRoutes ==
    <<[handler |-> "delete_task", segment |-> None],
      [handler |-> "clear_completed_tasks", segment |-> Some(CompletedSegment)]>>

\* The router: the first registered route that matches handles the request.
RouteOf(routes, segment) ==
    routes[CHOOSE i \in 1..Len(routes) :
              /\ routes[i].segment \in {None, Some(segment)}
              /\ \A j \in 1..(i - 1) : routes[j].segment \notin {None, Some(segment)}]

\* DELETE /task-lists/{l}/tasks/{segment}: the adapter call its handler makes.
delete_tasks_path_call(v, l, segment, fault) ==
    IF RouteOf(DeleteTaskRoutes, segment).handler = "delete_task"
    THEN delete_task(v, l, segment, fault)
    ELSE clear_completed_tasks(v, l, fault)

\* DELETE /task-lists/{l}/tasks/{segment}: the status its handler answers when
\* the adapter returned r.
delete_tasks_path_status(r, segment) ==
    IF RouteOf(DeleteTaskRoutes, segment).handler = "delete_task"
    THEN ExceptClauses(TryBody(r), 204)
    ELSE ExceptGeneric(r, 204)

(***************************************************************************)
(* mcp/server.py: the tool-call surface.  A tool answers [k, recs, err, v]  *)
(* like the adapter; recs are the dicts it returns.  The tools themselves   *)
(* are the Tool actions of the state machine.                               *)
(***************************************************************************)
TypeError == "TypeError: asdict() should be called on dataclass instances"

ValueError == "ValueError"

\* [asdict(x) for x in recs] / asdict(x) / `if not task: return None`:
\* dataclasses.asdict raises TypeError on the first object that is no
\* dataclass instance.
Asdict(r) ==
    IF r.k /= "value" THEN r
    ELSE IF \A i \in 1..Len(r.recs) : r.recs[i].class = "dataclass"
    THEN Ret("value", r.recs, "", r.v)
    ELSE Ret("raise", <<>>, TypeError, r.v)

\* `if due:` then datetime.fromisoformat(due.replace('Z', '+00:00')).
\* due is None or {wire string}; ok is FALSE for ValueError.
ParseDue(due) ==
    IF due = None \/ The(due) = "" THEN [ok |-> TRUE, dt |-> None]
    ELSE LET r == FromIsoFormat(ReplaceZ(The(due)))
         IN  [ok |-> r.ok, dt |-> IF r.ok THEN Some(r.dt) ELSE None]

\* `if status:` then TaskStatus(status).
ParseStatus(status) ==
    IF status = None \/ The(status) = "" THEN [ok |-> TRUE, st |-> None]
    ELSE [ok |-> The(status) \in TaskStatusValues,
          st |-> IF The(status) \in TaskStatusValues THEN status ELSE None]

(***************************************************************************)
(* create_multiple_tasks.  An item is a dict [title, notes, due] of         *)
(* optional keys.  The loop state is the vendor state, the created dicts,   *)
(* the error list (position and message) and, as a trace of the loop, the   *)
(* positions whose iteration ran.                                           *)
(***************************************************************************)
\* One iteration of `for i, task_data in enumerate(tasks)`; pos is i+1.
BatchStep(st, l, item, pos, fault) ==
    LET d == ParseDue(item.due)
        data == TaskCreate(GetOr(item.title, <<>>), item.notes, d.dt)
        r == IF ~data.ok THEN Ret("raise", <<>>, ValidationError, st.v)
             ELSE Asdict(create_task(st.v, l, data, fault))
        ran == [st EXCEPT !.ran = Append(@, pos)]
    IN  IF ~Truthy(item.title)
        THEN [ran EXCEPT !.errors = Append(@, [pos |-> pos, msg |-> "Missing title"])]
        ELSE IF ~d.ok
        THEN [ran EXCEPT !.errors = Append(@, [pos |-> pos, msg |-> "Invalid due date format"])]
        ELSE IF r.k = "raise"
        THEN [ran EXCEPT !.errors = Append(@, [pos |-> pos, msg |-> r.err]), !.v = r.v]
        ELSE [ran EXCEPT !.created = @ \o r.recs, !.v = r.v]

\* The loop leaving at the first recorded error instead of continuing.
RECURSIVE BatchLoopAbort(_, _, _, _, _)
BatchLoopAbort(st, l, items, pos, faults) ==
    IF pos > Len(items) \/ st.errors /= <<>> THEN st
    ELSE BatchLoopAbort(BatchStep(st, l, items[pos], pos, faults[pos]), l, items, pos + 1,
                        faults)

RECURSIVE BatchLoop(_, _, _, _, _)
BatchLoop(st, l, items, pos, faults) ==
    IF pos > Len(items) THEN st
    ELSE BatchLoop(BatchStep(st, l, items[pos], pos, faults[pos]), l, items, pos + 1, faults)

create_multiple_tasks(v, l, items, faults) ==
    LET st == BatchLoop([v |-> v, created |-> <<>>, errors |-> <<>>, ran |-> <<>>],
                        l, items, 1, faults)
    IN  [created_tasks |-> st.created,
         created_count |-> Len(st.created),
         errors |-> st.errors,
         success |-> Len(st.errors) = 0,
         ran |-> st.ran,
         v |-> st.v]

(***************************************************************************)
(* mpc_gmail/main.py: filter_emails.  The request dict maps each key to     *)
(* [in, val]: in says the key is in the dict, val is None or {value}.  A    *)
(* query string is the sequence of its pieces.                              *)
(***************************************************************************)
FilterKeys == {"query", "from", "subject", "has_attachment", "date_after",
               "date_before", "is_read", "label"}

Absent == [in |-> FALSE, val |-> None]

Present(val) == [in |-> TRUE, val |-> val]

BoolKeys == {"has_attachment", "is_read"}

\* Python truthiness of data[k]: None, "" and False are falsy.
TruthyAt(data, k) ==
    IF k \in BoolKeys THEN data[k].val /= None /\ The(data[k].val)
    ELSE Truthy(data[k].val)

\* `'k' in data and data['k']`
InAndTruthy(data, k) == data[k].in /\ TruthyAt(data, k)

\* ' '.join(parts)
RECURSIVE Join(_)
Join(parts) ==
    IF parts = <<>> THEN <<>>
    ELSE IF Len(parts) = 1 THEN parts[1]
    ELSE parts[1] \o <<" ">> \o Join(Tail(parts))

\* query_parts.append(...) when the condition holds.
Part(cond, piece) == IF cond THEN <<piece>> ELSE <<>>

\* The query filter_emails_endpoint passes to messages().list(q=...).
filter_emails_endpoint(data) ==
    Join(   Part(InAndTruthy(data, "query"), GetOr(data["query"].val, <<>>))
         \o Part(InAndTruthy(data, "from"), <<"from:">> \o GetOr(data["from"].val, <<>>))
         \o Part(InAndTruthy(data, "subject"),
                 <<"subject:">> \o GetOr(data["subject"].val, <<>>))
         \o Part(InAndTruthy(data, "has_attachment"), <<"has:attachment">>)
         \o Part(InAndTruthy(data, "date_after"),
                 <<"after:">> \o GetOr(data["date_after"].val, <<>>))
         \o Part(InAndTruthy(data, "date_before"),
                 <<"before:">> \o GetOr(data["date_before"].val, <<>>))
         \o Part(data["is_read"].in,
                 IF TruthyAt(data, "is_read") THEN <<"is:read">> ELSE <<"is:unread">>)
         \o Part(InAndTruthy(data, "label"), <<"label:">> \o GetOr(data["label"].val, <<>>)))

\* The tool: every parameter defaults to None and every key is put in the dict.
filter_emails(args) == filter_emails_endpoint([k \in FilterKeys |-> Present(args[k])])

\* get_unread_emails_endpoint answering with what it fetched before the
\* failure instead of an empty list.
get_unread_emails_keep(credsOk, listing, getFails) ==
    LET msgs == IF listing = None THEN <<>> ELSE The(listing)
        bad == {i \in 1..Len(msgs) : i = getFails \/ ~msgs[i].payload}
        fetched == IF bad = {} THEN msgs
                   ELSE SubSeq(msgs, 1, (CHOOSE i \in bad : \A j \in bad : i <= j) - 1)
        rows == [i \in 1..Len(fetched) |->
                    [id |-> fetched[i].id,
                     subject |-> GetOr(fetched[i].subject, <<"No Subject">>)]]
    IN  [status |-> 200,
         error |-> IF ~credsOk \/ listing = None \/ bad /= {} THEN Some("Exception")
                   ELSE None,
         unread_count |-> IF ~credsOk \/ listing = None \/ bad /= {} THEN 0 ELSE Len(rows),
         messages |-> IF ~credsOk \/ listing = None THEN <<>> ELSE rows]

\* get_unread_emails_endpoint.  credsOk: get_gmail_service returned; listing:
\* None when messages().list raised, else the messages it answered; getFails:
\* the position whose messages().get raises (0: none).  A message is
\* [id, payload, subject]: without payload, email['payload'] raises KeyError;
\* subject is the optional Subject header.  The for loop appends a row per
\* message; an exception anywhere leaves for the except clause, which drops
\* the rows.
get_unread_emails_endpoint(credsOk, listing, getFails) ==
    LET msgs == IF listing = None THEN <<>> ELSE The(listing)
        bad == {i \in 1..Len(msgs) : i = getFails \/ ~msgs[i].payload}
        rows == [i \in 1..Len(msgs) |->
                    [id |-> msgs[i].id, subject |-> GetOr(msgs[i].subject, <<"No Subject">>)]]
    IN  IF ~credsOk \/ listing = None \/ bad /= {}
        THEN [status |-> 200, error |-> Some("Exception"), unread_count |-> 0,
              messages |-> <<>>]
        ELSE [status |-> 200, error |-> None, unread_count |-> Len(rows), messages |-> rows]

(***************************************************************************)
(* mpc_gmail/main.py: send_email and read_email.  A JSON value is           *)
(* [type, val, items]: val is str(value) for a value that is no list, items *)
(* the elements of a list.  A request dict maps each key to [in, val].  The *)
(* mailbox is the sequence of the vendor's messages [id, headers, body],    *)
(* headers being optional; a call answers [k, err, sends, box] with its     *)
(* fields, sends counting the calls of messages().send it made.             *)
(***************************************************************************)
\* send_email_endpoint.  credsOk: get_gmail_service returned; sendFails:
\* messages().send raises.  The vendor assigns the identifier, adds the From
\* and Date headers and stores the message.
send_email_endpoint(data, credsOk, sendFails, box) ==
    LET none == [type |-> "NoneType", val |-> <<"N", "o", "n", "e">>, items |-> <<>>]
        Get(k) == IF data[k].in THEN data[k].val ELSE none
        Falsy(x) == \/ x.type = "NoneType"
                    \/ x.type = "str" /\ x.val = <<>>
                    \/ x.type = "list" /\ x.items = <<>>
                    \/ x.type = "int" /\ x.val = <<"0">>
        List(x) == IF x.type = "str" THEN <<x>> ELSE x.items
        RECURSIVE CommaJoin(_)
        CommaJoin(xs) == IF xs = <<>> THEN <<>>
                         ELSE IF Len(xs) = 1 THEN xs[1].val
                         ELSE xs[1].val \o <<",", " ">> \o CommaJoin(Tail(xs))
        Header(k) == IF Falsy(Get(k)) THEN None ELSE Some(CommaJoin(List(Get(k))))
        to == Get("to")
        message == [id |-> <<Len(box) + 1>>,
                    to |-> Some(CommaJoin(List(to))),
                    subject |-> Some(IF data["subject"].in THEN data["subject"].val.val
                                     ELSE <<>>),
                    cc |-> Header("cc"), bcc |-> Header("bcc"),
                    from |-> Some(<<"me">>), date |-> Some(<<"now">>),
                    body |-> Get("body").val]
        Raise(err) == [k |-> "raise", err |-> err, messageId |-> <<>>, sends |-> 0,
                       box |-> box]
    IN  IF ~credsOk THEN Raise("Exception")
        ELSE IF Falsy(to) THEN Raise("ValueError: 'to' field is required")
        ELSE IF to.type = "list" /\ \E i \in 1..Len(to.items) : to.items[i].type /= "str"
        THEN Raise("ValueError: All email addresses must be strings")
        ELSE IF to.type \notin {"str", "list"}
        THEN Raise("ValueError: 'to' must be a string or list of strings")
        ELSE IF Get("body").type /= "str" THEN Raise("AttributeError")
        ELSE IF sendFails
        THEN [k |-> "raise", err |-> "HttpError", messageId |-> <<>>, sends |-> 1,
              box |-> box]
        ELSE [k |-> "value", err |-> "", messageId |-> message.id, sends |-> 1,
              box |-> Append(box, message)]

\* The tool send_email.  The framework validates the arguments against the
\* signature (to: Union[str, List[str]], subject: str, body: str,
\* cc, bcc: Optional[List[str]]) before the function runs; the function makes
\* `to` a list and passes `subject or ""` and `body or ""`.
send_email(args, credsOk, sendFails, box) ==
    LET none == [type |-> "NoneType", val |-> <<"N", "o", "n", "e">>, items |-> <<>>]
        Strs(x) == x.type = "list" /\ \A i \in 1..Len(x.items) : x.items[i].type = "str"
        OptStrs(k) == ~args[k].in \/ args[k].val.type = "NoneType" \/ Strs(args[k].val)
        valid == /\ args["to"].in /\ (args["to"].val.type = "str" \/ Strs(args["to"].val))
                 /\ args["subject"].in /\ args["subject"].val.type = "str"
                 /\ args["body"].in /\ args["body"].val.type = "str"
                 /\ OptStrs("cc") /\ OptStrs("bcc")
        to == args["to"].val
    IN  IF ~valid
        THEN [k |-> "raise", err |-> ValidationError, messageId |-> <<>>, sends |-> 0,
              box |-> box]
        ELSE send_email_endpoint(
                 [to |-> Present(IF to.type = "str"
                                 THEN [type |-> "list", val |-> <<>>, items |-> <<to>>]
                                 ELSE to),
                  subject |-> args["subject"], body |-> args["body"],
                  cc |-> Present(IF args["cc"].in THEN args["cc"].val ELSE none),
                  bcc |-> Present(IF args["bcc"].in THEN args["bcc"].val ELSE none)],
                 credsOk, sendFails, box)

\* read_email_endpoint; the tool read_email passes its message_id to it.
\* getFails: messages().get raises; it raises for an unknown identifier too.
\* next(...) raises StopIteration for a message without the header.
read_email_endpoint(messageId, credsOk, getFails, box) ==
    LET found == {i \in 1..Len(box) : box[i].id = messageId}
        message == box[CHOOSE i \in found : TRUE]
        Raise(err) == [k |-> "raise", err |-> err, id |-> <<>>, subject |-> <<>>,
                       from |-> <<>>, date |-> <<>>, body |-> <<>>]
    IN  IF ~credsOk THEN Raise("Exception")
        ELSE IF getFails \/ found = {} THEN Raise("HttpError")
        ELSE IF message.subject = None \/ message.from = None \/ message.date = None
        THEN Raise("StopIteration")
        ELSE [k |-> "value", err |-> "", id |-> messageId,
              subject |-> The(message.subject), from |-> The(message.from),
              date |-> The(message.date), body |-> message.body]

(***************************************************************************)
(* Credential acquisition: get_gmail_service (mpc_gmail/main.py, Mail),     *)
(* _load_credentials (Cal/google_calendar_client.py, Calendar) and          *)
(* GoogleTasksService._get_credentials (Tasks).  The three functions have   *)
(* the same steps and differ in their file names.  A stored credential is   *)
(* [by, valid, refresh_token]: by names the provider it was written for,    *)
(* valid is FALSE for an expired one.  File names are relative, so a path   *)
(* is <<working directory of the provider's process, file name>>.           *)
(***************************************************************************)
Providers == {"Mail", "Calendar", "Tasks"}

\* TOKEN_PICKLE_FILE, TOKEN_FILE (its default) and token_path.
TokenFile(p) == IF p = "Mail" THEN "token.pickle" ELSE "token.json"

TokenPath(a, p) == <<a.cwd[p], TokenFile(p)>>

\* The credential a request holds once the stored one was loaded, refreshed
\* or replaced by a consent flow.
Credential(p, valid, refresh_token) ==
    [by |-> p, valid |-> valid, refresh_token |-> refresh_token]

\* No request has asked for its service yet: a request is [pc, provider,
\* found, creds, trace], found being the stored credential it loaded, creds
\* the one it holds, trace the events of its acquisition.
NoAuth ==
    [cwd |-> [p \in Providers |-> "."], files |-> [x \in {} |-> None], secrets |-> FALSE,
     procs |-> [i \in 1..MaxRequests |->
                  [pc |-> "new", provider |-> "", found |-> None, creds |-> None,
                   trace |-> <<>>]]]

\* The step of request i from pc from to pc to, leaving event (if any) in its
\* trace and holding creds.
ProcStep(a, i, to, creds, event) ==
    [a EXCEPT !.procs[i] = [@ EXCEPT !.pc = to, !.creds = creds,
                                     !.trace = IF event = "" THEN @ ELSE Append(@, event)]]

\* The stored credential refreshed whether it is valid or not.
AfterLoadAlwaysRefresh(creds, secrets) ==
    IF creds /= None /\ The(creds).refresh_token THEN <<"refreshing", "refresh">>
    ELSE IF creds /= None /\ The(creds).valid THEN <<"build", "">>
    ELSE IF secrets THEN <<"consenting", "consent">>
    ELSE <<"failed", "FileNotFoundError">>

\* The consent flow started without looking for the client-secret file.
AfterLoadNoSecretCheck(creds, secrets) ==
    IF creds /= None /\ The(creds).valid THEN <<"build", "">>
    ELSE IF creds /= None /\ The(creds).refresh_token THEN <<"refreshing", "refresh">>
    ELSE <<"consenting", "consent">>

\* `if not creds or not creds.valid:` with its inner branches: nothing to do
\* (valid), creds.refresh, or the consent flow, which needs the client-secret
\* file (FileNotFoundError without it).  Answers the next pc and the event.
AfterLoad(creds, secrets) ==
    IF creds /= None /\ The(creds).valid THEN <<"build", "">>
    ELSE IF creds /= None /\ The(creds).refresh_token THEN <<"refreshing", "refresh">>
    ELSE IF secrets THEN <<"consenting", "consent">>
    ELSE <<"failed", "FileNotFoundError">>

\* Request i enters the function for provider p: the token file is read if
\* it exists, then the branches decide what follows.
LoadToken ==
    /\ \E i \in 1..MaxRequests, p \in Providers :
         /\ auth.procs[i].pc = "new"
         /\ \E creds \in {auth.files[TokenPath(auth, p)]} :
              auth' = ProcStep([auth EXCEPT !.procs[i].provider = p,
                                           !.procs[i].found = creds],
                               i, AfterLoad(creds, auth.secrets)[1], creds,
                               AfterLoad(creds, auth.secrets)[2])
    /\ UNCHANGED <<vendor, last, mail, loop, cal, client>>

\* creds.refresh(Request()) returns, or raises RefreshError.
RefreshReturns ==
    /\ \E i \in 1..MaxRequests, ok \in BOOLEAN :
         /\ auth.procs[i].pc = "refreshing"
         /\ auth' = IF ok
                    THEN ProcStep(auth, i, "write",
                                  Some([The(auth.procs[i].creds) EXCEPT !.valid = TRUE]), "")
                    ELSE ProcStep(auth, i, "failed", auth.procs[i].creds, "RefreshError")
    /\ UNCHANGED <<vendor, last, mail, loop, cal, client>>

\* flow.run_local_server(port=0) returns the new credential, or raises.
ConsentReturns ==
    /\ \E i \in 1..MaxRequests, ok \in BOOLEAN :
         /\ auth.procs[i].pc = "consenting"
         /\ auth' = IF ok
                    THEN ProcStep(auth, i, "write",
                                  Some(Credential(auth.procs[i].provider, TRUE, TRUE)), "")
                    ELSE ProcStep(auth, i, "failed", auth.procs[i].creds, "ConsentError")
    /\ UNCHANGED <<vendor, last, mail, loop, cal, client>>

\* Save the credentials for the next run.
WriteToken ==
    /\ \E i \in 1..MaxRequests :
         /\ auth.procs[i].pc = "write"
         /\ auth' = ProcStep([auth EXCEPT
                                !.files[TokenPath(auth, auth.procs[i].provider)] =
                                    auth.procs[i].creds],
                             i, "build", auth.procs[i].creds, "write")
    /\ UNCHANGED <<vendor, last, mail, loop, cal, client>>

\* build(..., credentials=creds): the handle is returned.
BuildService ==
    /\ \E i \in 1..MaxRequests :
         /\ auth.procs[i].pc = "build"
         /\ auth' = ProcStep(auth, i, "done", auth.procs[i].creds, "handle")
    /\ UNCHANGED <<vendor, last, mail, loop, cal, client>>

(***************************************************************************)
(* The state machine.  The gateway keeps no state of its own between        *)
(* requests: the vendor account is the only state, and other clients of     *)
(* the account write to it as well.  A behaviour therefore starts in an     *)
(* account state drawn from a bounded set and follows one request through   *)
(* its handler.  vendor is the account, last the request with its answer,   *)
(* mail the filter_emails request with the query sent to the vendor.        *)
(***************************************************************************)
ListIds == {<<1>>, <<2>>}

\* The identifier of the task at position i of an account.
TaskIdAt(i) == <<2 + i>>

\* The task identifiers requests name: those of the account's tasks and one
\* the vendor never assigned.
TaskIds == {TaskIdAt(i) : i \in 1..(MaxTasks + 1)}

Titles == {<<"D">>, <<"x">>}


Queries == {<<"d">>, <<"x">>, <<>>}

\* faultOf of search_tasks: which of the two lists fails to list its tasks.
FaultMap(f1, f2) == [l \in ListIds |-> (l = <<1>> /\ f1) \/ (l = <<2>> /\ f2)]

\* A stored task: content (title, notes, due), status and list; a completed
\* task carries its completion time, a hidden one was cleared.
Shape(l, title, notes, due, status, hidden) ==
    [list |-> l, title |-> title, notes |-> notes, due |-> due, status |-> status,
     completed |-> IF status = Completed THEN Some(0) ELSE None, hidden |-> hidden]

\* Contents: titled with notes and due, untitled with notes, titled only.
Contents ==
    {<<Some(<<"D">>), Some(<<"d">>), Some(DueOffset)>>,
     <<None, Some(<<"d">>), None>>,
     <<Some(<<"x">>), None, None>>}

RECURSIVE SeqsUpTo(_, _)
SeqsUpTo(S, n) ==
    IF n = 0 THEN {<<>>}
    ELSE LET shorter == SeqsUpTo(S, n - 1)
         IN  shorter \cup {Append(q, x) : q \in {p \in shorter : Len(p) = n - 1}, x \in S}

BothLists ==
    <<[id |-> <<1>>, title |-> Some(<<"x">>), updated |-> 0],
      [id |-> <<2>>, title |-> Some(<<"x">>), updated |-> 0]>>


\* The account holding the given lists and the tasks of the given shapes (of
\* those lists), in that order, under the given PUT behaviour of the vendor.
Account(lists, shapes, put) ==
    [lists |-> lists,
     tasks |-> SelectSeq([i \in 1..Len(shapes) |->
                            [id |-> TaskIdAt(i), list |-> shapes[i].list,
                             title |-> shapes[i].title, notes |-> shapes[i].notes,
                             due |-> shapes[i].due, status |-> shapes[i].status,
                             completed |-> shapes[i].completed, updated |-> 0,
                             hidden |-> shapes[i].hidden]],
                         LAMBDA x : \E j \in 1..Len(lists) : lists[j].id = x.list),
     nextId |-> 3 + Len(shapes), clock |-> 0, put |-> put]

\* Accounts with both lists, or with list 2 deleted.
AccountsOf(shapes, n, puts) ==
    {Account(lists, sh, put) :
        lists \in {BothLists, SubSeq(BothLists, 1, 1)},
        sh \in SeqsUpTo(shapes, n), put \in puts}

\* The stored resource of task t of list l, as an Optional.
Stored(v, l, t) == IF TaskExists(v, l, t) THEN Some(TaskAt(v, l, t)) ELSE None

\* A request: the surface and operation, the list and task it names, its other
\* parameters, the stored resource of the task it names (pre) and the account
\* state it finds (was).
Request(surface, op, l, t, arg, pre) ==
    [surface |-> surface, op |-> op, l |-> l, t |-> t, arg |-> arg, pre |-> pre,
     was |-> vendor]

\* The request rq with its answer: k and recs are the answer of the handler
\* (k is "http" for a response with a status), ad is what the adapter
\* returned to the handler.
Answer(rq, k, status, r, ad) ==
    [rq |-> rq, k |-> k, status |-> status, recs |-> r.recs, err |-> r.err,
     ad |-> [k |-> ad.k, recs |-> ad.recs, err |-> ad.err]]

NoAnswer ==
    Answer(Request("", "init", <<>>, <<>>, <<>>, None), "", 0, Uncalled(<<>>), Uncalled(<<>>))

NoMail ==
    [surface |-> "", phase |-> "idle", data |-> [k \in FilterKeys |-> Absent], q |-> <<>>]

\* No request is on the event loop.
NoLoop == [surface |-> "", service |-> 0, made |-> 0, onLoop |-> 0, reqs |-> <<>>]

\* No request was handled yet.
Idle == last.rq.op = "init"

Init ==
    /\ vendor \in AccountsOf({Shape(l, c[1], c[2], c[3], st, FALSE) :
                                l \in ListIds, c \in Contents, st \in TaskStatusValues},
                            MaxTasks, {"replace", "merge"})
    /\ last = NoAnswer
    /\ mail = NoMail
    /\ auth = NoAuth
    /\ loop = NoLoop
    /\ cal = <<>>
    /\ client = <<>>

\* The TaskUpdate bodies drawn: no field, or one field.
UpdatesIn ==
    {TaskUpdate(None, None, None, None),
     TaskUpdate(Some(<<"x">>), None, None, None),
     TaskUpdate(None, Some(<<"d">>), None, None),
     TaskUpdate(None, None, Some(DtAware), None),
     TaskUpdate(None, None, Some(DtNaive), None),
     TaskUpdate(None, None, None, Some(Completed))}

\* A tool call: r is the tool's answer, ad what the adapter returned to it.
Tool(rq, r, ad) ==
    \E res \in {r} :
        /\ vendor' = res.v
        /\ last' = Answer(rq, res.k, 0, res, ad)
        /\ UNCHANGED <<mail, auth, loop, cal, client>>

\* An HTTP request: h is the response, ad what the adapter returned to the
\* handler.
Web(rq, h, ad) ==
    \E res \in {h} :
        /\ vendor' = res.v
        /\ last' = Answer(rq, "http", res.status, [recs |-> res.recs, err |-> ""], ad)
        /\ UNCHANGED <<mail, auth, loop, cal, client>>

\* In the actions below f says which vendor call of the handler fails: a
\* Boolean where the handler makes one call, and 0 (none), 1 or 2 where it
\* makes two.
HttpGetTask ==
    /\ Idle
    /\ \E l \in ListIds, t \in TaskIds, f \in BOOLEAN :
        LET r == get_task(vendor, l, t, f)
        IN  Web(Request("http", "get_task", l, t, <<f>>, Stored(vendor, l, t)),
                HttpAnswer(ExceptClauses(TryBody(r), 200), r), r)

ToolGetTask ==
    /\ Idle
    /\ \E l \in ListIds, t \in TaskIds, f \in BOOLEAN :
        LET r == get_task(vendor, l, t, f)
        IN  Tool(Request("tool", "get_task", l, t, <<f>>, Stored(vendor, l, t)),
                 Asdict(r), r)

\* task_data: TaskCreate is validated before the handler runs (422).
HttpCreateTask ==
    /\ Idle
    /\ \E l \in ListIds, title \in Titles \cup {<<>>}, notes \in {None, Some(<<"d">>)},
          due \in {None, Some(DtAware), Some(DtNaive)}, f \in BOOLEAN :
           LET data == TaskCreate(title, notes, due)
               r == IF data.ok THEN create_task(vendor, l, data, f) ELSE Uncalled(vendor)
           IN  Web(Request("http", "create_task", l, <<>>, <<data, f>>, None),
                   HttpAnswer(IF data.ok THEN ExceptGeneric(r, 201) ELSE 422, r), r)

ToolCreateTask ==
    /\ Idle
    /\ \E l \in ListIds, title \in Titles \cup {<<>>}, notes \in {None, Some(<<"d">>)},
          due \in {None, Some(DueZ), Some(DueNaive), Some(DueBad), Some("")},
          f \in BOOLEAN :
           LET d == ParseDue(due)
               data == TaskCreate(title, notes, d.dt)
               r == IF d.ok /\ data.ok THEN create_task(vendor, l, data, f)
                    ELSE Uncalled(vendor)
           IN  Tool(Request("tool", "create_task", l, <<>>, <<data, f, due>>, None),
                    IF ~d.ok THEN Ret("raise", <<>>, ValueError, vendor)
                    ELSE IF ~data.ok THEN Ret("raise", <<>>, ValidationError, vendor)
                    ELSE Asdict(r),
                    r)

\* task_data: TaskUpdate is validated before the handler runs (422).
HttpUpdateTask ==
    /\ Idle
    /\ \E l \in ListIds, t \in TaskIds, data \in UpdatesIn, f \in 0..2 :
           LET r == IF data.ok THEN update_task(vendor, l, t, data, f = 1, f = 2)
                    ELSE Uncalled(vendor)
           IN  Web(Request("http", "update_task", l, t, <<data, f>>, Stored(vendor, l, t)),
                   HttpAnswer(IF data.ok THEN ExceptClauses(TryBody(r), 200) ELSE 422, r), r)

\* The tool takes due and status as strings: the bodies of UpdatesIn with the
\* due date written with a trailing Z, or one of due and status in another
\* spelling (without offset, unparseable, unknown, empty).
ToolUpdateTask ==
    /\ Idle
    /\ \E l \in ListIds, t \in TaskIds, body \in UpdatesIn, f \in 0..2,
          alt \in {<<"", "">>, <<"due", DueNaive>>, <<"due", DueBad>>, <<"due", "">>,
                   <<"status", "done">>, <<"status", "">>} :
           LET due == IF alt[1] = "due" THEN Some(alt[2])
                      ELSE IF body.due = None THEN None ELSE Some(DueZ)
               status == IF alt[1] = "status" THEN Some(alt[2]) ELSE body.status
               d == ParseDue(due)
               st == ParseStatus(status)
               data == TaskUpdate(body.title, body.notes, d.dt, st.st)
               r == IF d.ok /\ st.ok /\ data.ok
                    THEN update_task(vendor, l, t, data, f = 1, f = 2)
                    ELSE Uncalled(vendor)
           IN  Tool(Request("tool", "update_task", l, t, <<data, f, due, status>>,
                            Stored(vendor, l, t)),
                    IF ~d.ok \/ ~st.ok THEN Ret("raise", <<>>, ValueError, vendor)
                    ELSE IF ~data.ok THEN Ret("raise", <<>>, ValidationError, vendor)
                    ELSE Asdict(r),
                    r)

HttpDeleteTask ==
    /\ Idle
    /\ \E l \in ListIds, t \in TaskIds, f \in BOOLEAN :
        LET r == delete_tasks_path_call(vendor, l, t, f)
        IN  Web(Request("http", "delete_task", l, t, <<f>>, Stored(vendor, l, t)),
                HttpAnswer(delete_tasks_path_status(r, t), r), r)

\* Returns {"success": success}.
ToolDeleteTask ==
    /\ Idle
    /\ \E l \in ListIds, t \in TaskIds, f \in BOOLEAN :
        LET r == delete_task(vendor, l, t, f)
        IN  Tool(Request("tool", "delete_task", l, t, <<f>>, Stored(vendor, l, t)), r, r)

HttpCompleteTask ==
    /\ Idle
    /\ \E l \in ListIds, t \in TaskIds, f \in 0..2 :
        LET r == complete_task(vendor, l, t, f = 1, f = 2)
        IN  Web(Request("http", "complete_task", l, t, <<f>>, Stored(vendor, l, t)),
                HttpAnswer(ExceptClauses(TryBody(r), 200), r), r)

ToolCompleteTask ==
    /\ Idle
    /\ \E l \in ListIds, t \in TaskIds, f \in 0..2 :
        LET r == complete_task(vendor, l, t, f = 1, f = 2)
        IN  Tool(Request("tool", "complete_task", l, t, <<f>>, Stored(vendor, l, t)),
                 Asdict(r), r)

HttpUncompleteTask ==
    /\ Idle
    /\ \E l \in ListIds, t \in TaskIds, f \in 0..2 :
        LET r == uncomplete_task(vendor, l, t, f = 1, f = 2)
        IN  Web(Request("http", "uncomplete_task", l, t, <<f>>, Stored(vendor, l, t)),
                HttpAnswer(ExceptClauses(TryBody(r), 200), r), r)

ToolUncompleteTask ==
    /\ Idle
    /\ \E l \in ListIds, t \in TaskIds, f \in 0..2 :
        LET r == uncomplete_task(vendor, l, t, f = 1, f = 2)
        IN  Tool(Request("tool", "uncomplete_task", l, t, <<f>>, Stored(vendor, l, t)),
                 Asdict(r), r)

HttpGetTasks ==
    /\ Idle
    /\ \E l \in ListIds, completed \in {None, Some(TRUE), Some(FALSE)}, f \in BOOLEAN :
        LET r == get_tasks(vendor, l, completed, f)
        IN  Web(Request("http", "get_tasks", l, <<>>, <<completed, f>>, None),
                HttpAnswer(ExceptGeneric(r, 200), r), r)

ToolGetTasks ==
    /\ Idle
    /\ \E l \in ListIds, completed \in {None, Some(TRUE), Some(FALSE)}, f \in BOOLEAN :
        LET r == get_tasks(vendor, l, completed, f)
        IN  Tool(Request("tool", "get_tasks", l, <<>>, <<completed, f>>, None),
                 Asdict(r), r)

\* DELETE /task-lists/{l}/tasks/completed
HttpClearCompletedTasks ==
    /\ Idle
    /\ \E l \in ListIds, f \in BOOLEAN :
        LET r == delete_tasks_path_call(vendor, l, CompletedSegment, f)
        IN  Web(Request("http", "clear_completed_tasks", l, CompletedSegment, <<f>>, None),
                HttpAnswer(delete_tasks_path_status(r, CompletedSegment), r), r)

\* Returns the message string.
ToolClearCompletedTasks ==
    /\ Idle
    /\ \E l \in ListIds, f \in BOOLEAN :
        LET r == clear_completed_tasks(vendor, l, f)
        IN  Tool(Request("tool", "clear_completed_tasks", l, <<>>, <<f>>, None),
                 IF r.k = "raise" THEN r ELSE Ret("value", <<>>, "", r.v), r)

HttpGetTaskList ==
    /\ Idle
    /\ \E l \in ListIds, f \in BOOLEAN :
        LET r == get_task_list(vendor, l, f)
        IN  Web(Request("http", "get_task_list", l, <<>>, <<f>>, None),
                HttpAnswer(ExceptClauses(TryBody(r), 200), r), r)

HttpUpdateTaskList ==
    /\ Idle
    /\ \E l \in ListIds, title \in {None, Some(<<"D">>)}, f \in 0..2 :
        LET data == [title |-> title]
            r == update_task_list(vendor, l, data, f = 1, f = 2)
        IN  Web(Request("http", "update_task_list", l, <<>>, <<data, f>>, None),
                HttpAnswer(ExceptClauses(TryBody(r), 200), r), r)

HttpDeleteTaskList ==
    /\ Idle
    /\ \E l \in ListIds, f \in BOOLEAN :
        LET r == delete_task_list(vendor, l, f)
        IN  Web(Request("http", "delete_task_list", l, <<>>, <<f>>, None),
                HttpAnswer(ExceptClauses(TryBody(r), 204), r), r)

\* fl fails tasklists().list(), f1 and f2 the listing of the tasks of list 1
\* and of list 2.
HttpSearchTasks ==
    /\ Idle
    /\ \E query \in Queries, tl \in {None} \cup {Some(l) : l \in ListIds},
          fl \in BOOLEAN, f1 \in BOOLEAN, f2 \in BOOLEAN :
        LET r == search_tasks(vendor, query, tl, fl, FaultMap(f1, f2))
        IN  Web(Request("http", "search_tasks", tl, <<>>, <<query, fl, f1, f2>>, None),
                HttpAnswer(ExceptGeneric(r, 200), r), r)

ToolSearchTasks ==
    /\ Idle
    /\ \E query \in Queries, tl \in {None} \cup {Some(l) : l \in ListIds},
          fl \in BOOLEAN, f1 \in BOOLEAN, f2 \in BOOLEAN :
        LET r == search_tasks(vendor, query, tl, fl, FaultMap(f1, f2))
        IN  Tool(Request("tool", "search_tasks", tl, <<>>, <<query, fl, f1, f2>>, None),
                 Asdict(r), r)

\* The batch items drawn: no title, a valid item with a due date, and an item
\* with an unparseable due date.
ItemsIn ==
    {[title |-> None, notes |-> None, due |-> None],
     [title |-> Some(<<"x">>), notes |-> None, due |-> Some(DueZ)],
     [title |-> Some(<<"x">>), notes |-> None, due |-> Some(DueBad)]}

\* The items of a batch that reach the vendor.
Creatable(items) ==
    {i \in 1..Len(items) : Truthy(items[i].title) /\ ParseDue(items[i].due).ok}

\* failing: the positions whose insert the vendor fails.
ToolCreateMultipleTasks ==
    /\ Idle
    /\ \E l \in ListIds, items \in SeqsUpTo(ItemsIn, MaxBatch) :
        \E failing \in SUBSET Creatable(items) :
             \E r \in {create_multiple_tasks(vendor, l, items,
                                             [i \in 1..Len(items) |-> i \in failing])} :
               /\ vendor' = r.v
               /\ last' = [rq |-> Request("tool", "create_multiple_tasks", l, <<>>,
                                          <<items, failing>>, None),
                           k |-> "value", status |-> 0, recs |-> r.created_tasks,
                           err |-> "", ad |-> NoAnswer.ad,
                           created_count |-> r.created_count, errors |-> r.errors,
                           success |-> r.success, ran |-> r.ran]
               /\ UNCHANGED <<mail, auth, loop, cal, client>>

\* The arguments drawn for a filter_emails call, one value per key; None is a
\* parameter left out, or a JSON null.
ArgsIn ==
    {[k \in FilterKeys |->
         CASE k = "query" -> q
           [] k = "from" -> fr
           [] k = "subject" -> su
           [] k = "has_attachment" -> ha
           [] k = "date_after" -> da
           [] k = "date_before" -> db
           [] k = "is_read" -> ir
           [] k = "label" -> la] :
        q \in {None, Some(<<>>), Some(<<"q">>)},
        fr \in {None, Some(<<"a">>)}, su \in {None, Some(<<"a">>)},
        ha \in {None, Some(TRUE), Some(FALSE)},
        da \in {None, Some(<<"a">>)}, db \in {None, Some(<<"a">>)},
        ir \in {None, Some(TRUE), Some(FALSE)}, la \in {None, Some(<<"a">>)}}

\* The JSON bodies drawn for POST /filter_emails: any subset of the keys.
BodiesIn ==
    {[k \in FilterKeys |-> IF k \in keys THEN Present(args[k]) ELSE Absent] :
        args \in ArgsIn, keys \in SUBSET FilterKeys}

InitMail ==
    /\ vendor = Account(BothLists, <<>>, "merge")
    /\ last = NoAnswer
    /\ mail = NoMail
    /\ auth = NoAuth
    /\ loop = NoLoop
    /\ cal = <<>>
    /\ client = <<>>

\* The tool filter_emails handles a call with the given arguments and sends
\* the query to the vendor.
ToolFilterEmails ==
    /\ mail.phase = "idle"
    /\ \E args \in ArgsIn :
         mail' = [surface |-> "tool", phase |-> "sent",
                  data |-> [k \in FilterKeys |-> Present(args[k])],
                  q |-> filter_emails(args)]
    /\ UNCHANGED <<vendor, last, auth, loop, cal, client>>

\* POST /filter_emails handles a body and sends the query to the vendor.
HttpFilterEmails ==
    /\ mail.phase = "idle"
    /\ \E data \in BodiesIn :
         mail' = [surface |-> "http", phase |-> "sent", data |-> data,
                  q |-> filter_emails_endpoint(data)]
    /\ UNCHANGED <<vendor, last, auth, loop, cal, client>>

\* One unread_emails request on the given surface: messages().list answers
\* at most max_results messages.  The inbox holds the unread messages, newest
\* first: with a Subject header, without one, and without a payload.
UnreadEmails(surface) ==
    /\ \E inbox \in {[i \in 1..Len(q) |->
                        [id |-> <<i>>, payload |-> q[i][1], subject |-> q[i][2]]] :
                       q \in SeqsUpTo({<<TRUE, Some(<<"a">>)>>, <<TRUE, None>>,
                                       <<FALSE, None>>}, MaxUnread)},
          max_results \in 1..MaxUnread, credsOk \in BOOLEAN,
          listOk \in BOOLEAN, getFails \in 0..MaxUnread :
         LET listing == IF listOk
                        THEN Some(SubSeq(inbox, 1, IF Len(inbox) < max_results
                                                   THEN Len(inbox) ELSE max_results))
                        ELSE None
         IN  mail' = [surface |-> surface, phase |-> "unread",
                      data |-> [credsOk |-> credsOk, listing |-> listing,
                                getFails |-> getFails],
                      q |-> <<>>,
                      resp |-> get_unread_emails_endpoint(credsOk, listing, getFails)]
    /\ UNCHANGED <<vendor, last, auth, loop, cal, client>>

\* GET /unread_emails
HttpUnreadEmails ==
    /\ mail.phase = "idle"
    /\ UnreadEmails("http")

\* The tool get_unread_emails returns get_unread_emails_endpoint(max_results).
ToolUnreadEmails ==
    /\ mail.phase = "idle"
    /\ UnreadEmails("tool")

\* The send_email requests drawn: `to` missing, null, empty, a number, a
\* string, a list (empty, of strings, holding a number); subject missing,
\* a string, empty, null, a number; body a string or missing; cc missing or a
\* list of one address.
SendRequestsIn ==
    LET Str(s) == [type |-> "str", val |-> s, items |-> <<>>]
        Num(s) == [type |-> "int", val |-> s, items |-> <<>>]
        Lst(xs) == [type |-> "list", val |-> <<>>, items |-> xs]
        none == [type |-> "NoneType", val |-> <<"N", "o", "n", "e">>, items |-> <<>>]
        Given(S) == {[in |-> FALSE, val |-> none]} \cup {[in |-> TRUE, val |-> x] : x \in S}
    IN  [to : Given({none, Str(<<>>), Num(<<"5">>), Str(<<"a">>), Lst(<<>>),
                     Lst(<<Str(<<"a">>)>>), Lst(<<Str(<<"a">>), Str(<<"b">>)>>),
                     Lst(<<Str(<<"a">>), Num(<<"5">>)>>)}),
         subject : Given({Str(<<"s">>), Str(<<>>), none, Num(<<"5">>)}),
         body : Given({Str(<<"b">>)}),
         cc : Given({Lst(<<Str(<<"c">>)>>)}),
         bcc : Given({})]

\* POST /send_email
HttpSendEmail ==
    /\ mail.phase = "idle"
    /\ \E data \in SendRequestsIn, credsOk \in BOOLEAN, sendFails \in BOOLEAN :
         mail' = [mail EXCEPT !.surface = "http", !.phase = "sent", !.data = data,
                              !.faults = <<credsOk, sendFails>>,
                              !.resp = send_email_endpoint(data, credsOk, sendFails, mail.box),
                              !.box = send_email_endpoint(data, credsOk, sendFails,
                                                          mail.box).box]
    /\ UNCHANGED <<vendor, last, auth, loop, cal, client>>

\* The tool send_email.
ToolSendEmail ==
    /\ mail.phase = "idle"
    /\ \E args \in SendRequestsIn, credsOk \in BOOLEAN, sendFails \in BOOLEAN :
         mail' = [mail EXCEPT !.surface = "tool", !.phase = "sent", !.data = args,
                              !.faults = <<credsOk, sendFails>>,
                              !.resp = send_email(args, credsOk, sendFails, mail.box),
                              !.box = send_email(args, credsOk, sendFails, mail.box).box]
    /\ UNCHANGED <<vendor, last, auth, loop, cal, client>>

\* POST /read_email, or the tool read_email, after a send on the same
\* surface: with the messageId the send returned, or with another one.
ReadEmail ==
    /\ mail.phase = "sent"
    /\ mail.resp.k = "value"
    /\ \E messageId \in {mail.resp.messageId, <<1>>}, credsOk \in BOOLEAN,
          getFails \in BOOLEAN :
         mail' = [mail EXCEPT !.phase = "read",
                              !.readFaults = <<credsOk, getFails>>,
                              !.read = read_email_endpoint(messageId, credsOk, getFails,
                                                           mail.box)]
    /\ UNCHANGED <<vendor, last, auth, loop, cal, client>>

(***************************************************************************)
(* The event loop that serves the Tasks requests of one surface.  loop is   *)
(* [surface, service, made, onLoop, reqs]: service is the tool server's     *)
(* _gtasks_service (0: None, else the instance), made counts the instances  *)
(* of GoogleTasksService constructed, onLoop is the request whose blocking  *)
(* call occupies the loop's thread (0: none).  A request is                 *)
(* [pc, calls, svc, r]: calls are the vendor calls it still makes (one, or  *)
(* one per item of a batch), svc is the instance it uses, r the outcome of  *)
(* the construction it waits for.  A coroutine runs only while the loop's   *)
(* thread is free.                                                          *)
(***************************************************************************)
\* get_gtasks_service constructing an instance at every call.
get_gtasks_service_always_new(handle, made, ok) ==
    IF ok THEN [k |-> "value", handle |-> made + 1, made |-> made + 1, built |-> TRUE]
    ELSE [k |-> "raise", handle |-> handle, made |-> made, built |-> TRUE]

\* mcp/server.py get_gtasks_service: GoogleTasksService() is called when the
\* module's handle is None, and the handle is assigned when the constructor
\* returns (ok); a constructor that raises leaves it as it was.  built says
\* the constructor was called.
get_gtasks_service(handle, made, ok) ==
    IF handle /= 0 THEN [k |-> "value", handle |-> handle, made |-> made, built |-> FALSE]
    ELSE IF ok THEN [k |-> "value", handle |-> made + 1, made |-> made + 1, built |-> TRUE]
    ELSE [k |-> "raise", handle |-> 0, made |-> made, built |-> TRUE]

\* The request's coroutine starts and asks for its service.  HTTP: main.py's
\* get_gtasks_service is a `def` dependency, which the framework runs in its
\* thread pool; it constructs an instance per request.  Tool:
\* get_gtasks_service() is called in the coroutine, and GoogleTasksService()
\* (credentials, build) runs there.
StartRequest ==
    /\ \E i \in 1..MaxRequests, n \in 1..MaxBatch, ok \in BOOLEAN :
         /\ loop.reqs[i].pc = "new"
         /\ loop.onLoop = 0
         /\ \E r \in {get_gtasks_service(loop.service, loop.made, ok)} :
              loop' = IF loop.surface = "http"
                      THEN [loop EXCEPT !.reqs[i] =
                              [pc |-> "service", calls |-> n, svc |-> 0,
                               r |-> [r EXCEPT !.k = IF ok THEN "value" ELSE "raise"]]]
                      ELSE IF ~r.built
                      THEN [loop EXCEPT !.reqs[i] = [pc |-> "ready", calls |-> n,
                                                     svc |-> r.handle, r |-> r]]
                      ELSE [loop EXCEPT !.reqs[i] = [pc |-> "service", calls |-> n,
                                                     svc |-> 0, r |-> r],
                                        !.onLoop = i]
    /\ UNCHANGED <<vendor, last, mail, auth, cal, client>>

\* GoogleTasksService() returns or raises and the coroutine goes on.  HTTP:
\* the instance is the request's own.  Tool: the handle is assigned.
ServiceReturns ==
    /\ \E i \in 1..MaxRequests :
         /\ loop.reqs[i].pc = "service"
         /\ loop.onLoop \in {0, i}
         /\ \E r \in {loop.reqs[i].r} :
              loop' = IF r.k = "raise"
                      THEN [loop EXCEPT !.reqs[i].pc = "failed", !.onLoop = 0]
                      ELSE IF loop.surface = "http"
                      THEN [loop EXCEPT !.reqs[i].pc = "ready",
                                        !.reqs[i].svc = loop.made + 1,
                                        !.made = @ + 1]
                      ELSE [loop EXCEPT !.reqs[i].pc = "ready", !.reqs[i].svc = r.handle,
                                        !.service = r.handle, !.made = r.made,
                                        !.onLoop = 0]
    /\ UNCHANGED <<vendor, last, mail, auth, cal, client>>

\* _run_async: loop.run_in_executor(None, func) hands the vendor call to a
\* worker thread and the coroutine awaits it.
RunAsync ==
    /\ \E i \in 1..MaxRequests :
         /\ loop.reqs[i].pc = "ready"
         /\ loop.onLoop = 0
         /\ loop' = [loop EXCEPT !.reqs[i].pc = "vendor"]
    /\ UNCHANGED <<vendor, last, mail, auth, cal, client>>

\* The vendor call returns; the coroutine makes its next call or answers.
VendorReturns ==
    /\ \E i \in 1..MaxRequests :
         /\ loop.reqs[i].pc = "vendor"
         /\ loop.onLoop = 0
         /\ loop' = [loop EXCEPT !.reqs[i].pc = IF loop.reqs[i].calls > 1 THEN "ready"
                                                ELSE "done",
                                 !.reqs[i].calls = @ - 1]
    /\ UNCHANGED <<vendor, last, mail, auth, cal, client>>

(***************************************************************************)
(* Cal/google_calendar_client.py: update_event.  cal is [events, calls]:    *)
(* events maps an identifier to the stored event (None: no such event), an  *)
(* event being [id, summary, description, location] with optional keys;     *)
(* a call is [pc, id, fields, ev, updated]: fields are the keyword          *)
(* arguments (None: not supplied), ev the event it read, updated the        *)
(* resource the vendor answered.                                            *)
(***************************************************************************)
\* A body that holds the supplied fields only.
MergeFieldsOnly(ev, fields) ==
    [k \in DOMAIN ev |-> IF k \in DOMAIN fields THEN fields[k] ELSE ev[k]]

\* ev.update(fields)
MergeFields(ev, fields) ==
    [k \in DOMAIN ev |-> IF k \in DOMAIN fields /\ fields[k] /= None THEN fields[k]
                         ELSE ev[k]]

\* get_service() and events().get(calendarId, eventId).execute(): the call
\* raises when either fails (ok) or the vendor knows no such event.
EventsGet ==
    /\ \E i \in 1..MaxRequests, id \in DOMAIN cal.events, ok \in BOOLEAN,
          summary \in {None, Some("s1")}, description \in {None, Some("d1")},
          location \in {None, Some("l1")} :
         /\ cal.calls[i].pc = "new"
         /\ cal' = [cal EXCEPT !.calls[i] =
                      [pc |-> IF ok /\ cal.events[id] /= None THEN "got" ELSE "failed",
                       id |-> id,
                       fields |-> [summary |-> summary, description |-> description,
                                   location |-> location],
                       ev |-> IF ok THEN cal.events[id] ELSE None,
                       updated |-> None]]
    /\ UNCHANGED <<vendor, last, mail, auth, loop, client>>

\* ev.update(fields) and events().update(calendarId, eventId, body=ev): a PUT,
\* the vendor stores the body as the event eventId.
EventsUpdate ==
    /\ \E i \in 1..MaxRequests, ok \in BOOLEAN :
         /\ cal.calls[i].pc = "got"
         /\ \E body \in {MergeFields(The(cal.calls[i].ev), cal.calls[i].fields)} :
              cal' = IF ok
                     THEN [cal EXCEPT !.events[cal.calls[i].id] =
                                         Some([body EXCEPT !.id = cal.calls[i].id]),
                                      !.calls[i].pc = "done",
                                      !.calls[i].updated =
                                         Some([body EXCEPT !.id = cal.calls[i].id])]
                     ELSE [cal EXCEPT !.calls[i].pc = "failed"]
    /\ UNCHANGED <<vendor, last, mail, auth, loop, client>>

(***************************************************************************)
(* api/mcp/client.py: GoogleTasksMCPClient.  client is [client, sessions,   *)
(* made, ops, did]: client is self.client (0: None, else the number of the  *)
(* fastmcp Client it holds), sessions the state of every Client made        *)
(* ("unopened", "open", "closed"), did the last method run: its name, the   *)
(* value of self.client it found (had), whether it made a Client (opened),  *)
(* and for an operation the Client call_tool was sent on and its state.     *)
(* ok is whether Client.__aenter__ succeeds.                                *)
(***************************************************************************)
\* GoogleTasksMCPClient.__aenter__
aenter ==
    /\ client.made < MaxSessions
    /\ \E ok \in BOOLEAN :
         client' = [client EXCEPT
                      !.client = client.made + 1,
                      !.made = client.made + 1,
                      !.sessions[client.made + 1] = IF ok THEN "open" ELSE "unopened",
                      !.did = [op |-> "aenter", had |-> client.client, opened |-> TRUE,
                               on |-> 0, state |-> ""]]
    /\ UNCHANGED <<vendor, last, mail, auth, loop, cal>>

\* GoogleTasksMCPClient.__aexit__
aexit ==
    /\ client.made > 0
    /\ client' = [client EXCEPT
                    !.sessions = IF client.client /= 0
                                 THEN [client.sessions EXCEPT ![client.client] = "closed"]
                                 ELSE client.sessions,
                    !.did = [op |-> "aexit", had |-> client.client, opened |-> FALSE,
                             on |-> 0, state |-> ""]]
    /\ UNCHANGED <<vendor, last, mail, auth, loop, cal>>

\* GoogleTasksMCPClient.connect
connect ==
    /\ client.client = 0 => client.made < MaxSessions
    /\ \E ok \in BOOLEAN :
         client' = IF client.client = 0
                   THEN [client EXCEPT
                           !.client = client.made + 1,
                           !.made = client.made + 1,
                           !.sessions[client.made + 1] = IF ok THEN "open" ELSE "unopened",
                           !.did = [op |-> "connect", had |-> 0, opened |-> TRUE,
                                    on |-> 0, state |-> ""]]
                   ELSE [client EXCEPT
                           !.did = [op |-> "connect", had |-> client.client,
                                    opened |-> FALSE, on |-> 0, state |-> ""]]
    /\ UNCHANGED <<vendor, last, mail, auth, loop, cal>>

\* GoogleTasksMCPClient.disconnect
disconnect ==
    /\ client.client \in 0..MaxSessions
    /\ client' = [client EXCEPT
                    !.client = 0,
                    !.sessions = IF client.client /= 0
                                 THEN [client.sessions EXCEPT ![client.client] = "closed"]
                                 ELSE client.sessions,
                    !.did = [op |-> "disconnect", had |-> client.client,
                             opened |-> FALSE, on |-> 0, state |-> ""]]
    /\ UNCHANGED <<vendor, last, mail, auth, loop, cal>>

\* GoogleTasksMCPClient.get_task_lists, and every other operation alike:
\* `if not self.client: await self.connect()`, then self.client.call_tool.
\* A connect that raises ends the operation before call_tool.
get_task_lists ==
    /\ client.ops < MaxOps
    /\ client.client = 0 => client.made < MaxSessions
    /\ \E ok \in BOOLEAN :
         client' = IF client.client = 0
                   THEN [client EXCEPT
                           !.client = client.made + 1,
                           !.made = client.made + 1,
                           !.ops = client.ops + 1,
                           !.sessions[client.made + 1] = IF ok THEN "open" ELSE "unopened",
                           !.did = IF ok
                                   THEN [op |-> "call", had |-> 0, opened |-> TRUE,
                                         on |-> client.made + 1, state |-> "open"]
                                   ELSE [op |-> "raise", had |-> 0, opened |-> TRUE,
                                         on |-> 0, state |-> ""]]
                   ELSE [client EXCEPT
                           !.ops = client.ops + 1,
                           !.did = [op |-> "call", had |-> client.client, opened |-> FALSE,
                                    on |-> client.client,
                                    state |-> client.sessions[client.client]]]
    /\ UNCHANGED <<vendor, last, mail, auth, loop, cal>>

(***************************************************************************)
(* Specifications.  Spec: the Tasks operations on both surfaces.            *)
(* SpecSearch: search_tasks over larger accounts.  SpecBatch:               *)
(* create_multiple_tasks.  SpecMail: filter_emails on both surfaces.        *)
(***************************************************************************)
Next ==
    \/ HttpGetTask \/ ToolGetTask
    \/ HttpCreateTask \/ ToolCreateTask
    \/ HttpUpdateTask \/ ToolUpdateTask
    \/ HttpDeleteTask \/ ToolDeleteTask
    \/ HttpCompleteTask \/ ToolCompleteTask
    \/ HttpUncompleteTask \/ ToolUncompleteTask
    \/ HttpGetTasks \/ ToolGetTasks
    \/ HttpClearCompletedTasks \/ ToolClearCompletedTasks
    \/ HttpGetTaskList
    \/ HttpUpdateTaskList
    \/ HttpDeleteTaskList
    \/ HttpSearchTasks \/ ToolSearchTasks

Spec == Init /\ [][Next]_vars

\* search_tasks reads titles, notes, status and hidden only, in every account
\* alike under both PUT behaviours.
InitSearch ==
    /\ vendor \in AccountsOf({Shape(l, c[1], c[2], c[3], NeedsAction, FALSE) :
                                l \in ListIds, c \in Contents}
                            \cup {Shape(l, c[1], c[2], c[3], Completed, TRUE) :
                                     l \in ListIds, c \in Contents},
                            MaxSearchTasks, {"merge"})
    /\ last = NoAnswer
    /\ mail = NoMail
    /\ auth = NoAuth
    /\ loop = NoLoop
    /\ cal = <<>>
    /\ client = <<>>

SpecSearch == InitSearch /\ [][HttpSearchTasks \/ ToolSearchTasks]_vars

\* Batch creation inserts only: accounts of titled open tasks, one PUT behaviour.
InitBatch ==
    /\ vendor \in AccountsOf({Shape(<<1>>, Some(<<"x">>), None, None, NeedsAction, FALSE)},
                            MaxTasks, {"merge"})
    /\ last = NoAnswer
    /\ mail = NoMail
    /\ auth = NoAuth
    /\ loop = NoLoop
    /\ cal = <<>>
    /\ client = <<>>

SpecBatch == InitBatch /\ [][ToolCreateMultipleTasks]_vars

SpecMail == InitMail /\ [][ToolFilterEmails \/ HttpFilterEmails]_vars

SpecUnread == InitMail /\ [][HttpUnreadEmails \/ ToolUnreadEmails]_vars

\* The mailbox is empty or holds a message received earlier.
InitSend ==
    /\ vendor = Account(BothLists, <<>>, "merge")
    /\ last = NoAnswer
    /\ auth = NoAuth
    /\ loop = NoLoop
    /\ cal = <<>>
    /\ client = <<>>
    /\ \E box \in {<<>>, <<[id |-> <<1>>, to |-> Some(<<"me">>), subject |-> Some(<<"o">>),
                           cc |-> None, bcc |-> None, from |-> Some(<<"x">>),
                           date |-> Some(<<"then">>), body |-> <<"o">>]>>} :
         mail = [surface |-> "", phase |-> "idle", data |-> <<>>, faults |-> <<>>,
                 resp |-> <<>>, readFaults |-> <<>>, read |-> <<>>, box |-> box]

SpecSend == InitSend /\ [][HttpSendEmail \/ ToolSendEmail \/ ReadEmail]_vars

\* The deployments: every provider's process started in the same directory,
\* or each in a directory of its own.  A token file holds nothing, a valid
\* credential, an expired one with a refresh token or an expired one without,
\* written by a provider that uses the path.
InitAuth ==
    /\ vendor = Account(BothLists, <<>>, "merge")
    /\ last = NoAnswer
    /\ mail = NoMail
    /\ loop = NoLoop
    /\ cal = <<>>
    /\ client = <<>>
    /\ \E cwd \in {[p \in Providers |-> "."], [p \in Providers |-> p]} :
         \E files \in [{<<cwd[p], TokenFile(p)>> : p \in Providers} ->
                          {None} \cup {Some(Credential(p, c[1], c[2])) :
                                          p \in Providers,
                                          c \in {<<TRUE, TRUE>>, <<FALSE, TRUE>>,
                                                 <<FALSE, FALSE>>}}] :
           /\ \A p \in Providers :
                files[<<cwd[p], TokenFile(p)>>] /= None
                => <<cwd[The(files[<<cwd[p], TokenFile(p)>>]).by], 
                     TokenFile(The(files[<<cwd[p], TokenFile(p)>>]).by)>> = <<cwd[p], TokenFile(p)>>
           /\ \E secrets \in BOOLEAN :
                auth = [NoAuth EXCEPT !.cwd = cwd, !.files = files, !.secrets = secrets]

SpecAuth ==
    InitAuth /\ [][LoadToken \/ RefreshReturns \/ ConsentReturns \/ WriteToken
                    \/ BuildService]_vars

\* The calendar holds event e1, with or without description and location,
\* and no event e0.
InitCal ==
    /\ vendor = Account(BothLists, <<>>, "merge")
    /\ last = NoAnswer
    /\ mail = NoMail
    /\ auth = NoAuth
    /\ loop = NoLoop
    /\ client = <<>>
    /\ \E o \in {None, Some("o")} :
         cal = [events |-> [id \in {"e0", "e1"} |->
                              IF id = "e0" THEN None
                              ELSE Some([id |-> "e1", summary |-> Some("s"),
                                         description |-> o, location |-> o])],
                calls |-> [i \in 1..MaxRequests |->
                             [pc |-> "new", id |-> "", fields |-> <<>>, ev |-> None,
                              updated |-> None]]]

SpecCal == InitCal /\ [][EventsGet \/ EventsUpdate]_vars

\* GoogleTasksMCPClient.__init__: self.client = None, no Client made.
InitClient ==
    /\ vendor = Account(BothLists, <<>>, "merge")
    /\ last = NoAnswer
    /\ mail = NoMail
    /\ auth = NoAuth
    /\ loop = NoLoop
    /\ cal = <<>>
    /\ client = [client |-> 0, sessions |-> [n \in 1..MaxSessions |-> "unopened"],
                 made |-> 0, ops |-> 0,
                 did |-> [op |-> "", had |-> 0, opened |-> FALSE, on |-> 0, state |-> ""]]

SpecClient ==
    InitClient /\ [][aenter \/ aexit \/ connect \/ disconnect \/ get_task_lists]_vars

\* The HTTP server, or the tool server before or after its first call made
\* the service.
InitLoop ==
    /\ vendor = Account(BothLists, <<>>, "merge")
    /\ last = NoAnswer
    /\ mail = NoMail
    /\ auth = NoAuth
    /\ cal = <<>>
    /\ client = <<>>
    /\ \E c \in {<<"http", 0>>, <<"tool", 0>>, <<"tool", 1>>} :
         loop = [surface |-> c[1], service |-> c[2], made |-> c[2], onLoop |-> 0,
                 reqs |-> [i \in 1..MaxRequests |->
                             [pc |-> "new", calls |-> 0, svc |-> 0,
                              r |-> get_gtasks_service(1, 1, TRUE)]]]

SpecLoop == InitLoop /\ [][StartRequest \/ ServiceReturns \/ RunAsync \/ VendorReturns]_vars

(***************************************************************************)
(* Properties of create_multiple_tasks, checked under SpecBatch.            *)
(***************************************************************************)
BatchDone == last.rq.op = "create_multiple_tasks"

BatchItems == last.rq.arg[1]

\* The positions whose insert the vendor fails.
BatchFailing == last.rq.arg[2]

\* The positions of the items without a title.
Untitled(items) == {i \in 1..Len(items) : ~Truthy(items[i].title)}

ErrorAt(i) == \E e \in 1..Len(last.errors) : last.errors[e].pos = i

\* C1: a failure on one item of a batch (missing title, unparseable due date,
\* exception from the create call) is recorded as an error of that item and
\* never ends the batch: every position is processed, in order, each item
\* yields a created record or an error, and success is true exactly when the
\* error list is empty.
C1_BatchNeverAborts ==
    BatchDone =>
        LET n == Len(BatchItems)
        IN  /\ last.ran = [i \in 1..n |-> i]
            /\ \A i \in ((1..n) \ Creatable(BatchItems)) \cup BatchFailing : ErrorAt(i)
            /\ \A e, g \in 1..Len(last.errors) :
                   e < g => last.errors[e].pos < last.errors[g].pos
            /\ Len(last.recs) + Len(last.errors) = n
            /\ last.success <=> (last.errors = <<>>)

\* A batch whose first item lacks a title and whose second item fails at the
\* vendor, and a later item still reached the vendor.
C1_Witness ==
    /\ BatchDone
    /\ Len(BatchItems) = MaxBatch
    /\ 1 \in Untitled(BatchItems)
    /\ 2 \in BatchFailing
    /\ ErrorAt(1) /\ ErrorAt(2)
    /\ last.ran = [i \in 1..MaxBatch |-> i]
    /\ Len(vendor.tasks) > Len(last.rq.was.tasks)

\* C2: in a batch of n items on an existing list where the items at positions
\* M lack a title and every other item is valid and accepted by the vendor,
\* created_count = n - |M| = the length of created_tasks, there is exactly one
\* error per position of M, and success is false when M is not empty.
C2_BatchCounts ==
    (/\ BatchDone
     /\ ListExists(last.rq.was, last.rq.l)
     /\ BatchFailing = {}
     /\ Creatable(BatchItems) \cup Untitled(BatchItems) = 1..Len(BatchItems))
    => LET n == Len(BatchItems)
           M == Untitled(BatchItems)
       IN  /\ last.created_count = n - Cardinality(M)
           /\ last.created_count = Len(last.recs)
           /\ Len(last.errors) = Cardinality(M)
           /\ \A i \in M : ErrorAt(i)
           /\ (M /= {}) => ~last.success

(***************************************************************************)
(* Properties of the Tasks adapter and its two surfaces, checked under      *)
(* Spec.                                                                    *)
(***************************************************************************)
TaskOps == {"get_task", "update_task", "delete_task", "complete_task", "uncomplete_task"}

ListOps == {"get_task_list", "update_task_list", "delete_task_list"}

DeleteOps == {"delete_task", "delete_task_list"}

\* The operations that read the resource before they write it.
TwoCallOps == {"update_task", "update_task_list", "complete_task", "uncomplete_task"}

\* The vendor knew the identifier the request names.
Known(rq) ==
    IF rq.op \in TaskOps THEN TaskExists(rq.was, rq.l, rq.t) ELSE ListExists(rq.was, rq.l)

\* A vendor call of the request failed for a reason other than 404.
VendorFails(rq) ==
    IF rq.op \in TwoCallOps
    THEN LET f == IF rq.op \in {"update_task", "update_task_list"} THEN rq.arg[2]
                  ELSE rq.arg[1]
         IN  f = 1 \/ (f = 2 /\ Known(rq))
    ELSE rq.arg[1]

\* C3: get_task, update_task, delete_task, get_task_list, update_task_list and
\* delete_task_list called with an identifier the vendor does not know return
\* None (get, update) or False (delete) instead of raising, and a vendor
\* failure other than 404 is raised to the caller as a Google API error.
C3_NotFoundAsValue ==
    (last.rq.op \in {"get_task", "update_task", "delete_task"} \cup ListOps
     /\ last.ad.k /= "")
    => /\ VendorFails(last.rq) => (last.ad.k = "raise" /\ last.ad.err = GoogleApiError)
       /\ (~VendorFails(last.rq) /\ ~Known(last.rq))
          => last.ad.k = (IF last.rq.op \in DeleteOps THEN "false" ELSE "none")

\* get_task on an identifier the vendor does not know returned None.
C3_Witness ==
    /\ last.rq.op = "get_task"
    /\ ~Known(last.rq)
    /\ ~VendorFails(last.rq)
    /\ last.ad.k = "none"

\* C4: on the HTTP surface a get, update, delete, complete or uncomplete
\* request for a missing task or task list is answered 404 and every other
\* adapter failure 500; the handler's own 404 never becomes a 500; a
\* successful create is answered 201, a successful delete 204 and every other
\* success 200.
C4_HttpStatus ==
    (last.rq.surface = "http" /\ last.status /= 422)
    => /\ last.rq.op \in TaskOps \cup ListOps
          => /\ (~VendorFails(last.rq) /\ ~Known(last.rq)) => last.status = 404
             /\ last.ad.k \in {"none", "false"} => last.status = 404
             /\ last.ad.k = "raise" => last.status = 500
             /\ last.ad.k \in {"value", "true"}
                => last.status = (IF last.rq.op \in DeleteOps THEN 204 ELSE 200)
       /\ last.rq.op = "create_task"
          => /\ last.ad.k = "value" => last.status = 201
             /\ last.ad.k = "raise" => last.status = 500
       /\ last.rq.op \in {"get_tasks", "search_tasks"}
          => /\ last.ad.k = "value" => last.status = 200
             /\ last.ad.k = "raise" => last.status = 500

\* PUT of a task the vendor does not know was answered 404.
C4_Witness ==
    /\ last.rq.surface = "http"
    /\ last.rq.op = "update_task"
    /\ ~Known(last.rq)
    /\ last.ad.k = "none"
    /\ last.status = 404

\* The operations the claim of parity names.
SharedOps ==
    {"get_tasks", "get_task", "create_task", "update_task", "delete_task",
     "complete_task", "uncomplete_task", "clear_completed_tasks", "search_tasks"}

\* The normalized outcome of an HTTP answer: the body, or the error class.
HttpOutcome(h) ==
    CASE h.status \in {200, 201} -> [class |-> "ok", body |-> h.recs]
      [] h.status = 204 -> [class |-> "ok", body |-> <<>>]
      [] h.status = 404 -> [class |-> "NotFound", body |-> <<>>]
      [] h.status = 422 -> [class |-> "ValidationError", body |-> <<>>]
      [] OTHER -> [class |-> "UpstreamError", body |-> <<>>]

\* The normalized outcome of a tool's answer r; ad is what the adapter
\* returned to it.  An exception raised before the adapter is called rejects
\* the input, one the adapter raised is an upstream error.
ToolOutcome(r, ad) ==
    CASE r.k = "value" -> [class |-> "ok", body |-> r.recs]
      [] r.k \in {"true", "void"} -> [class |-> "ok", body |-> <<>>]
      [] r.k \in {"none", "false"} -> [class |-> "NotFound", body |-> <<>>]
      [] r.k = "raise" /\ ad.k = "" -> [class |-> "ValidationError", body |-> <<>>]
      [] r.k = "raise" /\ ad.k = "raise" -> [class |-> "UpstreamError", body |-> <<>>]
      [] OTHER -> [class |-> r.err, body |-> <<>>]

\* The answer of the HTTP route to the parameters of the tool call rq, in the
\* account state the call found.
HttpPeer(rq) ==
    LET v == rq.was
        guarded(r, okStatus) == HttpAnswer(ExceptClauses(TryBody(r), okStatus), r)
        plain(r, okStatus) == HttpAnswer(ExceptGeneric(r, okStatus), r)
        routed(r, segment) == HttpAnswer(delete_tasks_path_status(r, segment), r)
    IN  CASE rq.op = "get_tasks" -> plain(get_tasks(v, rq.l, rq.arg[1], rq.arg[2]), 200)
          [] rq.op = "get_task" -> guarded(get_task(v, rq.l, rq.t, rq.arg[1]), 200)
          [] rq.op = "create_task" ->
                IF ~ParseDue(rq.arg[3]).ok \/ ~rq.arg[1].ok THEN HttpAnswer(422, Uncalled(v))
                ELSE plain(create_task(v, rq.l, rq.arg[1], rq.arg[2]), 201)
          [] rq.op = "update_task" ->
                guarded(update_task(v, rq.l, rq.t, rq.arg[1], rq.arg[2] = 1, rq.arg[2] = 2),
                        200)
          [] rq.op = "delete_task" ->
                routed(delete_tasks_path_call(v, rq.l, rq.t, rq.arg[1]), rq.t)
          [] rq.op = "complete_task" ->
                guarded(complete_task(v, rq.l, rq.t, rq.arg[1] = 1, rq.arg[1] = 2), 200)
          [] rq.op = "uncomplete_task" ->
                guarded(uncomplete_task(v, rq.l, rq.t, rq.arg[1] = 1, rq.arg[1] = 2), 200)
          [] rq.op = "clear_completed_tasks" ->
                routed(delete_tasks_path_call(v, rq.l, CompletedSegment, rq.arg[1]),
                       CompletedSegment)
          [] rq.op = "search_tasks" ->
                plain(search_tasks(v, rq.arg[1], rq.l, rq.arg[2],
                                   FaultMap(rq.arg[3], rq.arg[4])), 200)

\* C5: for every Tasks operation offered on both surfaces, the tool call and
\* the HTTP route invoked with the same parameters in the same account state
\* accept or reject alike and give the same normalized outcome: the same
\* record body on success, the same error class on failure.
C5_SurfaceParity ==
    (last.rq.surface = "tool" /\ last.rq.op \in SharedOps)
    => ToolOutcome(last, last.ad) = HttpOutcome(HttpPeer(last.rq))

\* C9: a valid create_task call on an existing task list returns a record
\* with a non-empty identifier, and get_task with that list and identifier,
\* nothing having touched the task in between, returns a record with the same
\* identifier, title, notes, due and status.
C9_CreateThenGet ==
    (/\ last.rq.op = "create_task"
     /\ last.ad.k /= ""
     /\ ListExists(last.rq.was, last.rq.l)
     /\ ~last.rq.arg[2])
    => /\ last.ad.k = "value"
       /\ \E rec \in {last.ad.recs[1]} :
            /\ rec.id /= <<>>
            /\ \E g \in {get_task(vendor, last.rq.l, rec.id, FALSE)} :
                 /\ g.k = "value"
                 /\ g.recs[1].id = rec.id
                 /\ g.recs[1].title = rec.title
                 /\ g.recs[1].notes = rec.notes
                 /\ g.recs[1].due = rec.due
                 /\ g.recs[1].status = rec.status

\* A task with notes and a due date was created in an account that already
\* held a task, and the record came back.
C9_Witness ==
    /\ last.rq.op = "create_task"
    /\ last.ad.k = "value"
    /\ last.ad.recs[1].notes /= None
    /\ last.ad.recs[1].due /= None
    /\ Len(last.rq.was.tasks) > 0
    /\ TaskExists(vendor, last.rq.l, last.ad.recs[1].id)

\* C10: update_task on an existing task with an update that sets no field
\* returns a record equal to the one stored before the call in every field
\* but updated, and the stored title, notes, due and status are unchanged.
C10_EmptyUpdateKeeps ==
    (/\ last.rq.op = "update_task"
     /\ last.rq.arg[1] = TaskUpdate(None, None, None, None)
     /\ last.rq.arg[2] = 0
     /\ last.rq.pre /= None
     /\ ConvertTask(The(last.rq.pre)).ok)
    => \E old \in {The(last.rq.pre)} :
         /\ last.ad.k = "value"
         /\ [last.ad.recs[1] EXCEPT !.updated = 0]
              = [ConvertTask(old).task EXCEPT !.updated = 0]
         /\ \E now \in {TaskAt(vendor, last.rq.l, last.rq.t)} :
              /\ now.title = old.title
              /\ now.notes = old.notes
              /\ now.due = old.due
              /\ now.status = old.status

\* C11: after delete_task (or delete_task_list) succeeds for an identifier, a
\* get of the same identifier returns None (HTTP 404) and a second delete of
\* it returns False (HTTP 404) rather than success.
C11_DeleteThenGone ==
    (last.rq.op \in DeleteOps /\ last.ad.k = "true")
    => \E l \in {last.rq.l}, t \in {last.rq.t} :
         IF last.rq.op = "delete_task"
         THEN /\ get_task(vendor, l, t, FALSE).k = "none"
              /\ ExceptClauses(TryBody(get_task(vendor, l, t, FALSE)), 200) = 404
              /\ delete_task(vendor, l, t, FALSE).k = "false"
              /\ delete_tasks_path_status(delete_tasks_path_call(vendor, l, t, FALSE), t)
                   = 404
         ELSE /\ get_task_list(vendor, l, FALSE).k = "none"
              /\ ExceptClauses(TryBody(get_task_list(vendor, l, FALSE)), 200) = 404
              /\ delete_task_list(vendor, l, FALSE).k = "false"
              /\ ExceptClauses(TryBody(delete_task_list(vendor, l, FALSE)), 204) = 404

\* DELETE of a stored task was answered 204 and the task is gone.
C11_Witness ==
    /\ last.rq.surface = "http"
    /\ last.rq.op = "delete_task"
    /\ last.rq.pre /= None
    /\ last.ad.k = "true"
    /\ last.status = 204
    /\ ~TaskExists(vendor, last.rq.l, last.rq.t)

\* C12: a newly created task has status needsAction; complete_task on an
\* existing task leaves it completed with a completed timestamp,
\* uncomplete_task leaves it needsAction, and neither changes the title, the
\* notes or the due date of the task.
C12_CompleteKeepsFields ==
    /\ (last.rq.op = "create_task" /\ last.ad.k = "value")
       => /\ last.ad.recs[1].status = NeedsAction
          /\ TaskAt(vendor, last.rq.l, last.ad.recs[1].id).status = NeedsAction
    /\ (/\ last.rq.op \in {"complete_task", "uncomplete_task"}
        /\ last.rq.arg[1] = 0
        /\ last.rq.pre /= None
        /\ ConvertTask(The(last.rq.pre)).ok)
       => \E old \in {The(last.rq.pre)}, now \in {TaskAt(vendor, last.rq.l, last.rq.t)} :
            /\ last.ad.k = "value"
            /\ now.status = (IF last.rq.op = "complete_task" THEN Completed
                             ELSE NeedsAction)
            /\ last.ad.recs[1].status = now.status
            /\ (last.rq.op = "complete_task") => now.completed /= None
            /\ now.title = old.title
            /\ now.notes = old.notes
            /\ now.due = old.due

\* The positions of the records of a listing r that carry identifier t.
ListedAt(r, t) == {i \in 1..Len(r.recs) : r.recs[i].id = t}

\* C13: after clear_completed_tasks(L) succeeds, the default listing of L
\* (get_tasks without a completed filter) holds no task that was completed
\* before the call, every needsAction task of L is still listed unchanged,
\* and every task of another list is still listed unchanged.
C13_ClearThenList ==
    (/\ last.rq.surface = "tool"
     /\ last.rq.op = "clear_completed_tasks"
     /\ last.ad.k = "void")
    => \A i \in 1..Len(last.rq.was.tasks) :
         \E old \in {last.rq.was.tasks[i]} :
           \E now \in {get_tasks(vendor, old.list, None, FALSE)},
              before \in {get_tasks(last.rq.was, old.list, None, FALSE)} :
             IF old.list = last.rq.l
             THEN IF old.status = Completed
                  THEN now.k = "value" /\ ListedAt(now, old.id) = {}
                  ELSE /\ now.k = "value"
                       /\ \E j \in ListedAt(now, old.id) :
                            now.recs[j] = ConvertTask(old).task
             ELSE now = [before EXCEPT !.v = vendor]

\* C14: an HTTP DELETE of /task-lists/{id}/tasks/completed is dispatched to
\* clear_completed_tasks of that list, not handled as delete_task with the
\* task identifier "completed".
C14_ClearRoute ==
    (last.rq.surface = "http" /\ last.rq.op = "clear_completed_tasks")
    => /\ RouteOf(DeleteTaskRoutes, CompletedSegment).handler = "clear_completed_tasks"
       /\ \E r \in {clear_completed_tasks(last.rq.was, last.rq.l, last.rq.arg[1])} :
            /\ vendor = r.v
            /\ last.ad.k = r.k
            /\ last.status = ExceptGeneric(r, 204)

\* The due and status strings a tool request was given (None: not given).
DueGiven(rq) == rq.arg[3]

StatusGiven(rq) == IF rq.op = "update_task" THEN rq.arg[4] ELSE None

\* C24: the create_task and update_task tools given a due date that is no ISO
\* date, and update_task given a status other than needsAction or completed,
\* fail with a validation error before any vendor call, so the account is
\* unchanged; a due date with a trailing Z is accepted as UTC.
C24_InvalidRejected ==
    (/\ last.rq.surface = "tool"
     /\ last.rq.op \in {"create_task", "update_task"})
    => /\ ( \/ /\ DueGiven(last.rq) /= None
                /\ The(DueGiven(last.rq)) \notin {DueZ, DueOffset, DueNaive, DueDate}
             \/ /\ StatusGiven(last.rq) /= None
                /\ The(StatusGiven(last.rq)) \notin TaskStatusValues )
          => /\ last.k = "raise"
             /\ last.err \in {ValueError, ValidationError}
             /\ last.ad.k = ""
             /\ vendor = last.rq.was
       /\ (DueGiven(last.rq) = Some(DueZ) /\ StatusGiven(last.rq) \subseteq TaskStatusValues)
          => /\ last.err /= ValueError
             /\ last.rq.arg[1].due = Some(DtAware)

\* C25: every due timestamp the adapter sends to the vendor in create_task or
\* update_task carries an explicit UTC offset: after a create or update with
\* a due value the stored due of the task is written with its offset.
C25_DueHasOffset ==
    (/\ last.rq.op \in {"create_task", "update_task"}
     /\ last.ad.k = "value"
     /\ last.rq.arg[1].due /= None)
    => TaskAt(vendor, last.rq.l, last.ad.recs[1].id).due \in {Some(DueOffset), Some(DueZ)}

\* C26: get_tasks with completed=false returns no completed task, with
\* completed=true only completed tasks, and with completed unspecified every
\* task of the list whatever its status.
C26_CompletedFilter ==
    (last.rq.op = "get_tasks" /\ last.ad.k = "value")
    => \E completed \in {last.rq.arg[1]} :
         /\ completed = Some(FALSE)
            => \A i \in 1..Len(last.ad.recs) : last.ad.recs[i].status /= Completed
         /\ completed = Some(TRUE)
            => \A i \in 1..Len(last.ad.recs) : last.ad.recs[i].status = Completed
         /\ completed = None
            => [i \in 1..Len(last.ad.recs) |-> last.ad.recs[i].id]
               = [i \in 1..Len(TasksOf(last.rq.was, last.rq.l)) |->
                    TasksOf(last.rq.was, last.rq.l)[i].id]

(***************************************************************************)
(* Properties of search_tasks, checked under SpecSearch.                    *)
(***************************************************************************)
\* The title or the notes contain the query, letter case ignored.
QueryIn(item, query) ==
    \/ Contains(Lower(GetOr(item.title, <<>>)), Lower(query))
    \/ Contains(Lower(GetOr(item.notes, <<>>)), Lower(query))

\* The tasks of the lists ids holding the query: list order, then task order.
RECURSIVE HitsIn(_, _, _)
HitsIn(v, ids, query) ==
    IF ids = <<>> THEN <<>>
    ELSE SelectSeq(TasksOf(v, Head(ids)), LAMBDA x : QueryIn(x, query))
         \o HitsIn(v, Tail(ids), query)

\* The lists a search request covers.
SearchedLists(rq) ==
    IF rq.l /= None THEN <<The(rq.l)>>
    ELSE [i \in 1..Len(rq.was.lists) |-> rq.was.lists[i].id]

\* C8: search_tasks returns exactly the tasks of the searched lists (the given
\* list, or every list), completed and hidden ones included, whose title or
\* notes contain the query as a case-insensitive substring, in list order then
\* task order, and an empty sequence when nothing matches.
C8_SearchExact ==
    (/\ last.rq.op = "search_tasks"
     /\ ~last.rq.arg[2] /\ ~last.rq.arg[3] /\ ~last.rq.arg[4])
    => /\ last.ad.k = "value"
       /\ [i \in 1..Len(last.ad.recs) |-> last.ad.recs[i].id]
            = [i \in 1..Len(HitsIn(last.rq.was, SearchedLists(last.rq), last.rq.arg[1]))
                 |-> HitsIn(last.rq.was, SearchedLists(last.rq), last.rq.arg[1])[i].id]

\* The lists of the account whose listing does not fail in the request.
ListedLists(rq) ==
    SelectSeq(SearchedLists(rq),
              LAMBDA l : ~((l = <<1>> /\ rq.arg[3]) \/ (l = <<2>> /\ rq.arg[4])))

\* C23: in a search_tasks over all task lists a vendor failure listing the
\* tasks of one list does not abort the search: the list is skipped and the
\* matches of every other list are returned; a failure listing the task lists
\* themselves is an error (HTTP 500).
C23_SearchSkipsFailedList ==
    (last.rq.op = "search_tasks" /\ last.rq.l = None)
    => IF last.rq.arg[2]
       THEN /\ last.ad.k = "raise"
            /\ last.rq.surface = "http" => last.status = 500
       ELSE /\ last.ad.k = "value"
            /\ [i \in 1..Len(last.ad.recs) |-> last.ad.recs[i].id]
                 = [i \in 1..Len(HitsIn(last.rq.was, ListedLists(last.rq), last.rq.arg[1]))
                      |-> HitsIn(last.rq.was, ListedLists(last.rq), last.rq.arg[1])[i].id]

(***************************************************************************)
(* Properties of filter_emails, checked under SpecMail.                     *)
(***************************************************************************)
MailSent == mail.phase = "sent"

\* The criterion k was supplied: given, not null, and not the empty string.
Supplied(data, k) ==
    /\ data[k].in
    /\ data[k].val /= None
    /\ (k \notin BoolKeys) => The(data[k].val) /= <<>>

\* The query the claim describes for the criteria of data.
ClaimedQuery(data) ==
    Join(   Part(Supplied(data, "query"), GetOr(data["query"].val, <<>>))
         \o Part(Supplied(data, "from"), <<"from:">> \o GetOr(data["from"].val, <<>>))
         \o Part(Supplied(data, "subject"),
                 <<"subject:">> \o GetOr(data["subject"].val, <<>>))
         \o Part(Supplied(data, "has_attachment") /\ TruthyAt(data, "has_attachment"),
                 <<"has:attachment">>)
         \o Part(Supplied(data, "date_after"),
                 <<"after:">> \o GetOr(data["date_after"].val, <<>>))
         \o Part(Supplied(data, "date_before"),
                 <<"before:">> \o GetOr(data["date_before"].val, <<>>))
         \o Part(Supplied(data, "is_read"),
                 IF TruthyAt(data, "is_read") THEN <<"is:read">> ELSE <<"is:unread">>)
         \o Part(Supplied(data, "label"), <<"label:">> \o GetOr(data["label"].val, <<>>)))

\* C6: the query filter_emails builds has a fragment for a criterion exactly
\* when the criterion was supplied (has:attachment only for true; is:read for
\* true, is:unread for false, no is: fragment when is_read is not supplied),
\* the fragments in the fixed order joined by single spaces, and the query is
\* empty without criteria.  A body whose is_read is an explicit null is left
\* aside: it neither supplies the criterion nor leaves it out.
C6_QueryFragments ==
    (/\ MailSent
     /\ ~(mail.surface = "http" /\ mail.data["is_read"].in
          /\ mail.data["is_read"].val = None))
    => mail.q = ClaimedQuery(mail.data)

\* The body that holds exactly the criteria a tool call supplied.
BodyOf(data) == [k \in FilterKeys |-> IF data[k].val = None THEN Absent ELSE data[k]]

\* C7: the filter_emails tool sends the vendor the query POST /filter_emails
\* sends for the same supplied criteria, also when optional criteria such as
\* is_read are left unspecified on both surfaces.
C7_SurfacesSameQuery ==
    (MailSent /\ mail.surface = "tool")
    => mail.q = filter_emails_endpoint(BodyOf(mail.data))

(***************************************************************************)
(* Properties of get_unread_emails, checked under SpecUnread.               *)
(***************************************************************************)
\* The unread request met a failure: no credentials, a failing listing, or a
\* listed message whose fetch fails or that has no payload.
UnreadFailed(data) ==
    \/ ~data.credsOk
    \/ data.listing = None
    \/ \E i \in 1..Len(The(data.listing)) :
          i = data.getFails \/ ~The(data.listing)[i].payload

\* C15: the unread-emails operation never raises: a failure of the
\* credentials, of the listing or of the fetch of a message yields a 200
\* response with an error field, unread_count 0 and no messages, the ones
\* already fetched being dropped; without a failure there is no error field
\* and one entry per listed message; unread_count is always the number of
\* entries of messages.
C15_UnreadNeverRaises ==
    (mail.phase = "unread")
    => /\ mail.resp.status = 200
       /\ mail.resp.unread_count = Len(mail.resp.messages)
       /\ UnreadFailed(mail.data)
          => /\ mail.resp.error /= None
             /\ mail.resp.unread_count = 0
             /\ mail.resp.messages = <<>>
       /\ ~UnreadFailed(mail.data)
          => /\ mail.resp.error = None
             /\ [i \in 1..Len(mail.resp.messages) |-> mail.resp.messages[i].id]
                  = [i \in 1..Len(The(mail.data.listing)) |-> The(mail.data.listing)[i].id]

\* The fetch of the second listed message failed after the first was fetched.
C15_Witness ==
    /\ mail.phase = "unread"
    /\ mail.data.credsOk
    /\ mail.data.listing /= None
    /\ Len(The(mail.data.listing)) = 2
    /\ The(mail.data.listing)[1].payload
    /\ mail.data.getFails = 2
    /\ mail.resp.error /= None
    /\ mail.resp.messages = <<>>

(***************************************************************************)
(* Properties of credential acquisition, checked under SpecAuth.            *)
(***************************************************************************)
\* The stored credential request q found needs no refresh and no consent.
FoundValid(q) == q.found /= None /\ The(q.found).valid

Has(q, event) == \E k \in 1..Len(q.trace) : q.trace[k] = event

\* C16: credential acquisition writes the token file every time it refreshed
\* an expired credential or completed a consent flow, before the handle is
\* returned; when the stored credential is valid it refreshes nothing, starts
\* no consent flow and writes nothing.
C16_WriteOnRefresh ==
    \A i \in 1..MaxRequests :
      \E q \in {auth.procs[i]} :
        /\ (q.pc = "done" /\ ~FoundValid(q))
           => q.trace \in {<<"refresh", "write", "handle">>, <<"consent", "write", "handle">>}
        /\ (q.pc /= "new" /\ FoundValid(q))
           => ~Has(q, "refresh") /\ ~Has(q, "consent") /\ ~Has(q, "write")
        /\ (q.pc = "build" /\ Has(q, "write"))
           => auth.files[TokenPath(auth, q.provider)] /= None

\* An expired credential was refreshed and written, and the handle returned.
C16_Witness ==
    \E i \in 1..MaxRequests :
      /\ auth.procs[i].pc = "done"
      /\ auth.procs[i].found /= None
      /\ ~The(auth.procs[i].found).valid
      /\ auth.procs[i].trace = <<"refresh", "write", "handle">>
      /\ auth.files[TokenPath(auth, auth.procs[i].provider)] /= None
      /\ The(auth.files[TokenPath(auth, auth.procs[i].provider)]).valid

\* A refresh or a consent flow of request i is in progress.
Renewing(i) == auth.procs[i].pc \in {"refreshing", "consenting"}

\* C17: concurrent credential acquisitions for the same scope are serialized:
\* never are two refresh or consent flows of one scope in progress together,
\* and two requests that both found the stored credential expired cause at
\* most one refresh and one write of the token file.
C17_Serialized ==
    \A i, j \in 1..MaxRequests :
      (i /= j /\ auth.procs[i].provider = auth.procs[j].provider)
      => /\ ~(Renewing(i) /\ Renewing(j))
         /\ (/\ auth.procs[i].found /= None /\ ~The(auth.procs[i].found).valid
             /\ auth.procs[j].found /= None /\ ~The(auth.procs[j].found).valid
             /\ Has(auth.procs[i], "write"))
            => /\ ~Has(auth.procs[j], "refresh")
               /\ ~Has(auth.procs[j], "consent")
               /\ ~Has(auth.procs[j], "write")

\* C18: every scope has its own token file: no two providers (Mail, Calendar,
\* Tasks) read or write the same token path under the default configuration,
\* and a credential written for one scope is never loaded as the credential
\* of another.
C18_OwnTokenFile ==
    /\ \A i, j \in 1..MaxRequests :
         (/\ auth.procs[i].pc /= "new" /\ auth.procs[j].pc /= "new"
          /\ auth.procs[i].provider /= auth.procs[j].provider)
         => TokenPath(auth, auth.procs[i].provider) /= TokenPath(auth, auth.procs[j].provider)
    /\ \A i \in 1..MaxRequests :
         auth.procs[i].found /= None => The(auth.procs[i].found).by = auth.procs[i].provider

\* The token file is as request i found it unless another request wrote it.
Unwritten(i) ==
    (\A j \in 1..MaxRequests : j /= i => ~Has(auth.procs[j], "write"))
    => auth.files[TokenPath(auth, auth.procs[i].provider)] = auth.procs[i].found

\* C19: credential acquisition fails with an error, returns no handle and
\* leaves the token file unwritten when there is no usable stored credential
\* and the client-secret file is absent, and likewise when the refresh of an
\* expired credential fails; for each of Mail, Calendar and Tasks.
C19_FailsClean ==
    \A i \in 1..MaxRequests :
      \E q \in {auth.procs[i]} :
        /\ (/\ q.pc /= "new"
            /\ ~FoundValid(q)
            /\ ~(q.found /= None /\ The(q.found).refresh_token)
            /\ ~auth.secrets)
           => q.pc = "failed" /\ q.trace = <<"FileNotFoundError">>
        /\ Has(q, "RefreshError") => q.pc = "failed"
        /\ q.pc = "failed"
           => ~Has(q, "write") /\ ~Has(q, "handle") /\ Unwritten(i)

\* Each provider has failed once for a missing client-secret file and once
\* for a failing refresh.
C19_Witness ==
    \E i, j \in 1..MaxRequests :
      /\ auth.procs[i].pc = "failed"
      /\ auth.procs[i].trace = <<"FileNotFoundError">>
      /\ auth.procs[j].pc = "failed"
      /\ auth.procs[j].trace = <<"refresh", "RefreshError">>
      /\ auth.procs[i].provider = "Mail"
      /\ auth.procs[j].provider \in {"Calendar", "Tasks"}

(***************************************************************************)
(* Properties of send_email and read_email, checked under SpecSend.         *)
(***************************************************************************)
\* The answer of the surface's send_email to the request data.
SendOn(surface, data, faults, box) ==
    IF surface = "http" THEN send_email_endpoint(data, faults[1], faults[2], box)
    ELSE send_email(data, faults[1], faults[2], box)

\* The mailbox the last send found.
BoxBefore == IF mail.resp.k = "value" THEN SubSeq(mail.box, 1, Len(mail.box) - 1) ELSE mail.box

\* `to` is missing, empty, neither a string nor a list, or a list holding a
\* value that is no string.
BadTo(to) ==
    \/ ~to.in
    \/ to.val.type \notin {"str", "list"}
    \/ to.val.type = "str" /\ to.val.val = <<>>
    \/ to.val.type = "list" /\ to.val.items = <<>>
    \/ to.val.type = "list" /\ \E i \in 1..Len(to.val.items) : to.val.items[i].type /= "str"

\* C21: a successful send_email returns the identifier the vendor assigned to
\* the message just sent, and read_email with that identifier returns the
\* same identifier and the subject that was passed to send_email.
C21_SendThenRead ==
    /\ (mail.phase \in {"sent", "read"} /\ mail.resp.k = "value")
       => /\ Len(mail.box) > 0
          /\ mail.resp.messageId = mail.box[Len(mail.box)].id
          /\ \A i \in 1..(Len(mail.box) - 1) : mail.box[i].id /= mail.resp.messageId
    /\ (/\ mail.phase = "read"
        /\ mail.readFaults = <<TRUE, FALSE>>
        /\ mail.read.id = mail.resp.messageId \/ mail.read.k = "raise")
       => \/ mail.read.k = "raise" /\ mail.read.err = "HttpError"
          \/ /\ mail.read.k = "value"
             /\ mail.read.id = mail.resp.messageId
             /\ mail.data["subject"].in
                => /\ mail.data["subject"].val.type = "str"
                   /\ mail.read.subject = mail.data["subject"].val.val

\* C22: send_email rejects a request whose `to` is missing, empty, no string
\* or list, or a list holding a non-string, and then no send call reaches the
\* vendor; a `to` given as one string is treated like the one-element list
\* holding that string, on both surfaces.
C22_ToValidated ==
    mail.phase \in {"sent", "read"}
    => /\ BadTo(mail.data["to"])
          => /\ mail.resp.k = "raise"
             /\ mail.resp.sends = 0
             /\ mail.resp.box = BoxBefore
       /\ (mail.data["to"].in /\ mail.data["to"].val.type = "str")
          => mail.resp
             = SendOn(mail.surface,
                      [mail.data EXCEPT !["to"] =
                          Present([type |-> "list", val |-> <<>>,
                                   items |-> <<mail.data["to"].val>>])],
                      mail.faults, BoxBefore)

(***************************************************************************)
(* Properties of update_event, checked under SpecCal.                       *)
(***************************************************************************)
EventKeys == {"summary", "description", "location"}

\* C27: update_event applies a partial update: the event stored by the call
\* is the event read at the start of the call with exactly the supplied
\* fields replaced, every field not supplied keeping its value, and the
\* identifier is unchanged.
C27_PartialUpdate ==
    \A i \in 1..MaxRequests :
        cal.calls[i].pc = "done"
        => \E c \in {cal.calls[i]} :
             /\ c.updated /= None
             /\ The(c.updated).id = c.id
             /\ The(c.ev).id = c.id
             /\ \A k \in EventKeys :
                  The(c.updated)[k] = IF c.fields[k] /= None THEN c.fields[k]
                                      ELSE The(c.ev)[k]

\* A call that supplied the summary alone for an event with a description.
C27_Witness ==
    \E i \in 1..MaxRequests :
        /\ cal.calls[i].pc = "done"
        /\ cal.calls[i].fields["summary"] /= None
        /\ cal.calls[i].fields["description"] = None
        /\ The(cal.calls[i].ev)["description"] /= None
        /\ cal.events[cal.calls[i].id] = cal.calls[i].updated

\* C28: when two update_event calls on one event run concurrently and change
\* disjoint fields, both changes are in the stored event once both calls
\* have returned.
C28_NoLostUpdate ==
    \A i, j \in 1..MaxRequests :
        (/\ i /= j
         /\ cal.calls[i].pc = "done" /\ cal.calls[j].pc = "done"
         /\ cal.calls[i].id = cal.calls[j].id
         /\ \A k \in EventKeys : cal.calls[i].fields[k] = None \/ cal.calls[j].fields[k] = None)
        => \A k \in EventKeys :
             cal.calls[i].fields[k] /= None
             => The(cal.events[cal.calls[i].id])[k] = cal.calls[i].fields[k]

(***************************************************************************)
(* Properties of GoogleTasksMCPClient, checked under SpecClient.            *)
(***************************************************************************)
\* C29: every operation of GoogleTasksMCPClient is issued on an open session:
\* an operation called with no session opens one first, connect called while
\* a session exists opens no second one, disconnect closes the session and
\* clears it, and after leaving the context manager no later operation is
\* sent on the closed session.
C29_OpenSession ==
    /\ client.did.op = "call" => client.did.state = "open"
    /\ client.did.op \in {"call", "raise"} /\ client.did.had = 0 => client.did.opened
    /\ client.did.op = "connect" /\ client.did.had /= 0 => ~client.did.opened
    /\ client.did.op = "disconnect"
       => /\ client.client = 0
          /\ client.did.had /= 0 => client.sessions[client.did.had] = "closed"

(***************************************************************************)
(* Properties of the event loop, checked under SpecLoop.                    *)
(***************************************************************************)
\* Request i waits on a blocking call: credential loading with the making of
\* the service, or a vendor call.
Blocking(i) == loop.reqs[i].pc \in {"service", "vendor"}

\* C20: every blocking call made while a Tasks request is handled (the
\* loading of the credentials and each create of a batch included) runs off
\* the coroutine's thread: while a request waits on such a call the loop is
\* free, so any other request can start and complete.
C20_OffTheLoop ==
    \A i \in 1..MaxRequests : Blocking(i) => loop.onLoop = 0

\* C30: on the tool surface the service handle is a lazily constructed
\* singleton: whatever the tool calls and their interleaving, at most one
\* GoogleTasksService is constructed successfully and every tool call uses
\* that instance; a construction that fails leaves the handle unset, so the
\* next tool call constructs again.
C30_Singleton ==
    loop.surface = "tool"
    => /\ loop.made <= 1
       /\ loop.service = loop.made
       /\ \A i \in 1..MaxRequests :
            /\ loop.reqs[i].pc \in {"ready", "vendor", "done"}
               => loop.reqs[i].svc = 1 /\ loop.service = 1
            /\ (loop.reqs[i].pc = "failed" /\ loop.made = 0)
               => /\ loop.service = 0
                  /\ \A j \in 1..MaxRequests :
                       loop.reqs[j].pc = "service" => loop.reqs[j].r.built

\* A tool call whose construction failed, and a later one that constructed
\* the instance and was served.
C30_Witness ==
    /\ loop.surface = "tool"
    /\ \E i, j \in 1..MaxRequests :
         /\ loop.reqs[i].pc = "failed"
         /\ loop.reqs[j].pc = "done"
         /\ loop.reqs[j].svc = 1

====
